---- MODULE Spec2Model ----
(***************************************************************************)
(* State-machine model of the relay hub of claw-stream-vision:             *)
(* VisionBroadcaster (src/src/twitch-audio-capture.ts, lines 317-584), the *)
(* calls main() makes into it and the callbacks it registers with it       *)
(* (src/unnamed/part_001), and the chat-room client those callbacks use    *)
(* (TwitchClient, src/src/twitch-client.ts).                               *)
(*                                                                         *)
(* The hub runs on one event loop, so every handler is one atomic action.  *)
(* A transport is a WebSocket of the ws library; the hub reads only its    *)
(* identity and its readyState.                                            *)
(***************************************************************************)
EXTENDS Integers, Sequences, FiniteSets, TLC

\* ------------------------------------------------------------------ bounds
\* Number of transports (WebSocket objects) that ever connect.
MaxConns == 2
\* Largest value of the clock Date.now() reads.
MaxTime == 2
\* Chat events published in the full specification.
MaxChat == 2
\* Chat events published in the chat-volume specification (past capacity).
MaxVolume == 102

\* Callbacks registered with onClawMessage.
MaxHandlers == 2
\* Texts handed to the chat room.
MaxSaid == 2
\* Handlers whose sends are logged at the peers.
MaxPublish == 5

\* Credentials the identity endpoint issues.
MaxTokens == 2
\* Messages posted in the chat room.
MaxRoom == 2

\* Steps of the transcript clock, each of TimeStep milliseconds.
MaxSteps == 9
\* Fragments the transcription accepts.
MaxFragments == 6

\* Chunks whose transcription is answered, where the answers vary.
MaxHeard == 2
\* Audio chunks the recording loop records.
MaxChunks == 3
\* WebSockets the client library opens.
MaxSockets == 4

\* ------------------------------------------------------- program constants
maxChatHistory == 100
RecentChatTail == 20
\* streamStartedAt: number | null -- null is 0; Date.now() is positive.
NullTime == 0
\* scheduleTokenRefresh: the delays of its two timers, in minutes.
RefreshInterval == 180
RetryDelay == 5
\* TwitchAudioCapture: the quiet period and the maximum buffer duration.
BUFFER_DELAY_MS == 1000
MAX_BUFFER_TIME_MS == 3000
\* AudioTranscriber.BUFFER_DELAY_MS
MIC_BUFFER_DELAY_MS == 2500
\* bufferTimeout = null
NoTimer == -1
\* ClawStreamClient.maxReconnectAttempts
maxReconnectAttempts == 5
\* The transcript clock advances in steps that divide the three durations.
TimeStep == BUFFER_DELAY_MS \div 2

WS == 1..MaxConns
ClawIds == {"c1", "c2"}
ClawNames == {"Rex", "Ada"}
Frames == {"A", "B"}
NoFrame == "null"
Absent == ""

\* Inbound payloads, after JSON.parse: the fields handleClawMessage reads.
\* A field the sender left out (or sent empty) is Absent.  sessionId is
\* copied into the participant and read by nothing; it is left out here.
Registers ==
  [type : {"register"}, clawId : ClawIds, clawName : ClawNames, content : {Absent}]

InvalidRegisters ==
  {[type |-> "register", clawId |-> Absent, clawName |-> "Rex", content |-> Absent],
   [type |-> "register", clawId |-> "c1", clawName |-> Absent, content |-> Absent]}

ClientActions ==
  [type : {"chat", "reaction", "observation"}, clawId : {"c1"},
   clawName : {"Rex"}, content : {"hi"}]

Ping == [type |-> "ping", clawId |-> Absent, clawName |-> Absent, content |-> Absent]

Dropped ==
  [type : {"bogus", "#unparseable"}, clawId : {Absent}, clawName : {Absent},
   content : {Absent}]

\* The payload null: JSON.parse accepts it and yields no object.
NullPayload ==
  [type |-> "#null", clawId |-> Absent, clawName |-> Absent, content |-> Absent]

RawMessages ==
  Registers \cup InvalidRegisters \cup ClientActions \cup {Ping} \cup Dropped
    \cup {NullPayload}

\* The callbacks handed to onClawMessage: the one main() registers, which
\* forwards a chat action to the chat room, and one that throws.
HandlerKinds == {"forward", "throws"}

VARIABLES
  connectedClaws,   \* Map<string, ConnectedClaw> in insertion order
  readyState,       \* per transport: "NONE" (not connected yet), "OPEN",
                    \* "CLOSING" (no longer writable, 'close' not emitted yet),
                    \* "CLOSED" ('close' emitted and handled)
  recentChat,       \* ChatMessage[]
  currentFrame,     \* StreamFrame | null
  streamStartedAt,  \* number | null
  now,              \* the clock behind Date.now()
  chatCount,        \* number of chat events published so far
  sent,             \* the ws.send calls of the last handler, in order
  lastOp,           \* the last handler that ran, with its arguments
  owner,            \* per claw id, the transport of its latest register (0: none)
  clawMessageHandlers, \* the callbacks onClawMessage registered, in order
  invoked,          \* the callbacks the last handleClawMessage called, in order
  uncaught,         \* an exception escaped a listener: the process is gone
  connected,        \* TwitchClient.connected
  said,             \* the texts handed to client.say, in order
  echo,             \* own messages the room has not yet emitted back
  inbox,            \* per transport, the publishes its peer has received
  published,        \* number of handlers that sent anything so far
  clients,          \* the tmi clients createClient made; the last is this.client
  currentToken,     \* TwitchClient.currentToken, as the rank of the credential
  refreshTimer,     \* the pending timer of scheduleTokenRefresh, if any
  refreshPc,        \* where the refreshToken in flight is waiting
  connectPc,        \* where connect() is waiting
  scheduled,        \* scheduleTokenRefresh has been called
  stopped,          \* disconnect() has been called
  waited,           \* minutes of timers run down since the last attempt ended
  lastAttempt,      \* how the last refresh attempt of a timer ended
  roomCount,        \* number of messages posted in the chat room
  handled,          \* the room messages handed to the onMessage handlers
  aggNow,           \* Date.now() of the transcript aggregator, in ms
  transcriptBuffer, \* the aggregator's working buffer
  bufferTimeout,    \* the timer handle the aggregator holds: its due time
  bufferStartTime,  \* TwitchAudioCapture.bufferStartTime
  timers,           \* due times of the aggregator's timers that will fire
  emitted,          \* the transcripts handed to the onTranscript handlers
  arrivals,         \* when each accepted fragment arrived, and into what
  phase,            \* how far main() has come
  env,              \* process.env: the values of the required variables
  lastState,        \* per transport, the participants of the last state
                    \* message its peer received ("none": none yet)
  registeredFrom,   \* per transport, the ids ever registered from it
  chunkIndex,       \* TwitchAudioCapture.chunkIndex: chunks recorded so far
  inFlight,         \* the chunks whose transcription has not settled yet
  sockets,          \* the WebSockets ClawStreamClient.connect() made: the
                    \* state of each
  clientWs,         \* ClawStreamClient.ws: its place in sockets (0: null)
  clientConnected,  \* ClawStreamClient.connected
  reconnectAttempts, \* ClawStreamClient.reconnectAttempts
  reconnectTimers,  \* timers of attemptReconnect that have not fired yet
  pingInterval,     \* ClawStreamClient.pingInterval is set
  registersSent,    \* register messages the client has written
  clientStopped     \* ClawStreamClient.disconnect() has been called

\* The chat bridge: the callbacks of the hub and the chat-room client.
bridgeVars == <<clawMessageHandlers, invoked, uncaught, connected, said, echo>>

\* What the peers of the transports have received.
peerVars == <<inbox, published>>

\* The credential rotation of the chat client and what the room delivers.
chatVars == <<clients, currentToken, refreshTimer, refreshPc, connectPc,
              scheduled, stopped, waited, lastAttempt, roomCount, handled>>

\* The transcript aggregator.
aggVars == <<aggNow, transcriptBuffer, bufferTimeout, bufferStartTime, timers,
             emitted, arrivals>>

\* The process around the hub, the chat client and the aggregator.
clawVars == <<sockets, clientWs, clientConnected, reconnectAttempts, reconnectTimers,
              pingInterval, registersSent, clientStopped>>

outerVars == <<phase, env, lastState, registeredFrom, chunkIndex, inFlight,
               sockets, clientWs, clientConnected, reconnectAttempts,
               reconnectTimers, pingInterval, registersSent, clientStopped>>

vars == <<connectedClaws, readyState, recentChat, currentFrame, streamStartedAt,
          now, chatCount, sent, lastOp, owner, clawMessageHandlers, invoked,
          uncaught, connected, said, echo, inbox, published, clients,
          currentToken, refreshTimer, refreshPc, connectPc, scheduled, stopped,
          waited, lastAttempt, roomCount, handled, aggNow, transcriptBuffer,
          bufferTimeout, bufferStartTime, timers, emitted, arrivals, phase,
          env, lastState, registeredFrom, chunkIndex, inFlight, sockets,
          clientWs, clientConnected, reconnectAttempts, reconnectTimers, pingInterval,
          registersSent, clientStopped>>

\* ------------------------------------------------------------ Map helpers
Keys(m) == {m[i].id : i \in 1..Len(m)}

\* A buggy set(): always appends, also when the key exists.
MapSetAppend(m, id, ws, participant) ==
  Append(m, [id |-> id, ws |-> ws, participant |-> participant])

\* Map.prototype.set: an existing key keeps its position and gets the new
\* value, a new key is appended.
MapSet(m, id, ws, participant) ==
  LET entry == [id |-> id, ws |-> ws, participant |-> participant]
  IN IF id \in Keys(m)
       THEN [i \in 1..Len(m) |-> IF m[i].id = id THEN entry ELSE m[i]]
       ELSE Append(m, entry)

\* Map.prototype.delete
MapDelete(m, id) == SelectSeq(m, LAMBDA c : c.id # id)

\* A buggy scan: the last entry whose transport is ws.
LastWith(m, ws) ==
  IF \E i \in 1..Len(m) : m[i].ws = ws
    THEN CHOOSE i \in 1..Len(m) :
           m[i].ws = ws /\ \A j \in (i + 1)..Len(m) : m[j].ws # ws
    ELSE 0

\* The index of the first entry whose transport is ws (0: none): the linear
\* scans of handleClawDisconnect and of the ping case.
FirstWith(m, ws) ==
  IF \E i \in 1..Len(m) : m[i].ws = ws
    THEN CHOOSE i \in 1..Len(m) :
           m[i].ws = ws /\ \A j \in 1..(i - 1) : m[j].ws # ws
    ELSE 0

\* ------------------------------------------------------------ projections
SliceLast(s, n) == IF Len(s) <= n THEN s ELSE SubSeq(s, Len(s) - n + 1, Len(s))

GetStreamState(claws, chat, frame, startedAt) ==
  [isLive |-> startedAt # NullTime,
   currentFrame |-> frame,
   recentChat |-> SliceLast(chat, RecentChatTail),
   participants |-> [i \in 1..Len(claws) |-> claws[i].participant],
   streamStartedAt |-> startedAt]

VisionBroadcast(type, payload, t) ==
  [type |-> type, payload |-> payload, timestamp |-> t]

\* ---------------------------------------------------------------- fan-out
\* A buggy fan-out: only the first writable session is served.
BroadcastSendsFirstOnly(claws, rs, message) ==
  LET open == SelectSeq(claws, LAMBDA c : rs[c.ws] = "OPEN")
  IN IF open = <<>> THEN <<>>
     ELSE <<[to |-> open[1].ws, id |-> open[1].id, msg |-> message]>>

\* A buggy fan-out: the loop ends at the first session that is not writable.
BroadcastSendsStopAtDead(claws, rs, message) ==
  LET dead == {i \in 1..Len(claws) : rs[claws[i].ws] # "OPEN"}
      n == IF dead = {} THEN Len(claws)
           ELSE (CHOOSE i \in dead : \A j \in dead : i <= j) - 1
  IN [i \in 1..n |-> [to |-> claws[i].ws, id |-> claws[i].id, msg |-> message]]

\* broadcast(): one send per entry whose transport is OPEN, in Map order ...
BroadcastSends(claws, rs, message) ==
  LET open == SelectSeq(claws, LAMBDA c : rs[c.ws] = "OPEN")
  IN [i \in 1..Len(open) |-> [to |-> open[i].ws, id |-> open[i].id, msg |-> message]]

\* A buggy fan-out: nothing is ever pruned.
BroadcastKeepAll(claws, rs) == claws

\* ... and every other entry is deleted.
BroadcastKeep(claws, rs) == SelectSeq(claws, LAMBDA c : rs[c.ws] = "OPEN")

StateMessage(claws, chat, frame, startedAt, t) ==
  VisionBroadcast("state", GetStreamState(claws, chat, frame, startedAt), t)

\* ------------------------------------------------------------------- Init
\* The state of the objects main() constructs.
Constructed ==
  /\ connectedClaws = <<>>
  /\ readyState = [w \in WS |-> "NONE"]
  /\ recentChat = <<>>
  /\ currentFrame = NoFrame
  /\ streamStartedAt = NullTime
  /\ now = 1
  /\ chatCount = 0
  /\ sent = <<>>
  /\ lastOp = [op |-> "init"]
  /\ owner = [id \in ClawIds |-> 0]
  /\ clawMessageHandlers = <<>>
  /\ invoked = <<>>
  /\ uncaught = FALSE
  /\ connected = FALSE
  /\ said = <<>>
  /\ echo = <<>>
  /\ inbox = [w \in WS |-> <<>>]
  /\ published = 0
  /\ clients = <<[token |-> 0, state |-> "new", seen |-> 0]>>
  /\ currentToken = 0
  /\ refreshTimer = "none"
  /\ refreshPc = "idle"
  /\ connectPc = "idle"
  /\ scheduled = FALSE
  /\ stopped = FALSE
  /\ waited = 0
  /\ lastAttempt = "none"
  /\ roomCount = 0
  /\ handled = <<>>
  /\ aggNow = 0
  /\ transcriptBuffer = <<>>
  /\ bufferTimeout = NoTimer
  /\ bufferStartTime = 0
  /\ timers = <<>>
  /\ emitted = <<>>
  /\ arrivals = <<>>
  /\ lastState = [w \in WS |-> "none"]
  /\ registeredFrom = [w \in WS |-> {}]
  /\ chunkIndex = 0
  /\ inFlight = {}
  /\ sockets = <<>>
  /\ clientWs = 0
  /\ clientConnected = FALSE
  /\ reconnectAttempts = 0
  /\ reconnectTimers = 0
  /\ pingInterval = FALSE
  /\ registersSent = 0
  /\ clientStopped = FALSE

\* The names loadConfig requires, and what process.env may hold for one.
RequiredEnv == {"TWITCH_USERNAME", "TWITCH_OAUTH_TOKEN", "TWITCH_CHANNEL"}
EnvValues == {"#undefined", "", "set"}

\* main() has started the hub: every required variable was set.
Init ==
  /\ Constructed
  /\ phase = "running"
  /\ env = [name \in RequiredEnv |-> "set"]

\* The process starts with any environment.
InitBoot ==
  /\ Constructed
  /\ phase = "boot"
  /\ env \in [RequiredEnv -> EnvValues]

\* ---------------------------------------------------------------- actions
\* wss.on("connection"): the new transport gets the current state.
Connection(w) ==
  /\ readyState[w] = "NONE"
  /\ \A v \in WS : v < w => readyState[v] # "NONE"
  /\ readyState' = [readyState EXCEPT ![w] = "OPEN"]
  /\ sent' = <<[to |-> w, id |-> Absent,
                msg |-> StateMessage(connectedClaws, recentChat, currentFrame,
                                     streamStartedAt, now)]>>
  /\ lastOp' = [op |-> "connection", ws |-> w]
  /\ UNCHANGED <<connectedClaws, recentChat, currentFrame, streamStartedAt,
                 now, chatCount, owner>>
  /\ UNCHANGED bridgeVars

\* ------------------------------------------------------------ chat bridge
\* sendClawMessage: `[${clawName}]: ${message}`, as the pieces of the
\* template.
FormatClawMessage(clawName, message) == <<"[", clawName, "]: ", message>>

\* sendMessage(text): client.say when connected, a warning otherwise.
SendMessage(conn, texts, text) == IF conn THEN Append(texts, text) ELSE texts

\* A buggy loop: no callback is called.
CalledNone(handlers) == 0

\* for (const handler of this.clawMessageHandlers) handler(clawMessage):
\* how many callbacks are called; the first one that throws ends the loop.
Called(handlers) ==
  IF \E i \in 1..Len(handlers) : handlers[i] = "throws"
    THEN CHOOSE i \in 1..Len(handlers) :
           handlers[i] = "throws" /\ \A j \in 1..(i - 1) : handlers[j] # "throws"
    ELSE Len(handlers)

\* A buggy wiring: every client action is forwarded to the room.
ForwardedAll(type) == TRUE

\* main()'s callback: chat goes to sendClawMessage, observation and reaction
\* are logged.
Forwarded(type) == type = "chat"

\* The texts said by the callbacks the loop called for clawMessage.
SaidAfter(handlers, clawMessage, conn, texts) ==
  LET called == SubSeq(handlers, 1, Called(handlers))
      forwards == SelectSeq(called, LAMBDA h : h = "forward")
      text == FormatClawMessage(clawMessage.clawName, clawMessage.content)
      SayAll[k \in 0..Len(forwards)] ==
        IF k = 0 THEN texts ELSE SendMessage(conn, SayAll[k - 1], text)
  IN IF Forwarded(clawMessage.type) THEN SayAll[Len(forwards)] ELSE texts

\* handleClawMessage(ws, rawMessage).
HandleClawMessage(w, raw) ==
  /\ readyState[w] = "OPEN"
  /\ lastOp' = [op |-> "message", ws |-> w, raw |-> raw,
                prev |-> IF raw.clawId \in Keys(connectedClaws)
                           THEN owner[raw.clawId] ELSE 0]
  /\ UNCHANGED <<readyState, recentChat, currentFrame, streamStartedAt, now,
                 chatCount, clawMessageHandlers, connected>>
  /\ IF raw.type = "#unparseable"
       THEN \* JSON.parse throws, the catch returns
            /\ sent' = <<>>
            /\ UNCHANGED <<connectedClaws, owner, invoked, uncaught, said, echo>>
     ELSE IF raw.type = "#null"
       THEN \* message is null: reading message.type throws a TypeError
            /\ sent' = <<>>
            /\ uncaught' = TRUE
            /\ UNCHANGED <<connectedClaws, owner, invoked, said, echo>>
     ELSE IF raw.type = "register"
       THEN IF raw.clawId = Absent \/ raw.clawName = Absent
              THEN /\ sent' = <<>>
                   /\ UNCHANGED <<connectedClaws, owner, invoked, uncaught,
                                  said, echo>>
            ELSE LET participant == [id |-> raw.clawId, name |-> raw.clawName,
                                     sessionId |-> Absent, joinedAt |-> now,
                                     lastSeen |-> now]
                     claws == MapSet(connectedClaws, raw.clawId, w, participant)
                     message == StateMessage(claws, recentChat, currentFrame,
                                             streamStartedAt, now)
                 IN /\ sent' = BroadcastSends(claws, readyState, message)
                    /\ connectedClaws' = BroadcastKeep(claws, readyState)
                    /\ owner' = [owner EXCEPT ![raw.clawId] = w]
                    /\ UNCHANGED <<invoked, uncaught, said, echo>>
     ELSE IF raw.type \in {"chat", "reaction", "observation"}
       THEN LET clawMessage == [type |-> raw.type, content |-> raw.content,
                                clawId |-> raw.clawId, clawName |-> raw.clawName,
                                timestamp |-> now]
                n == Called(clawMessageHandlers)
            IN /\ invoked' = [i \in 1..n |-> i]
               /\ uncaught' = (n # 0 /\ clawMessageHandlers[n] = "throws")
               /\ said' = SaidAfter(clawMessageHandlers, clawMessage, connected, said)
               /\ echo' = echo \o SubSeq(said', Len(said) + 1, Len(said'))
               /\ sent' = <<>>
               /\ UNCHANGED <<connectedClaws, owner>>
     ELSE IF raw.type = "ping"
       THEN LET i == FirstWith(connectedClaws, w)
            IN /\ connectedClaws' =
                    IF i = 0 THEN connectedClaws
                    ELSE [connectedClaws EXCEPT ![i].participant.lastSeen = now]
               /\ sent' = <<[to |-> w, id |-> Absent,
                             msg |-> [type |-> "pong", timestamp |-> now]]>>
               /\ UNCHANGED <<owner, invoked, uncaught, said, echo>>
     ELSE \* default: unknown type, a warning
          /\ sent' = <<>>
          /\ UNCHANGED <<connectedClaws, owner, invoked, uncaught, said, echo>>

\* onClawMessage(handler)
OnClawMessage(h) ==
  /\ clawMessageHandlers' = Append(clawMessageHandlers, h)
  /\ sent' = <<>>
  /\ lastOp' = [op |-> "onClawMessage", handler |-> h]
  /\ UNCHANGED <<connectedClaws, readyState, recentChat, currentFrame,
                 streamStartedAt, now, chatCount, owner, invoked, uncaught,
                 connected, said, echo>>

\* client.on("connected") and client.on("disconnected")
TwitchConnection(up) ==
  /\ connected' = up
  /\ sent' = <<>>
  /\ lastOp' = [op |-> "twitchConnection", up |-> up]
  /\ UNCHANGED <<connectedClaws, readyState, recentChat, currentFrame,
                 streamStartedAt, now, chatCount, owner, clawMessageHandlers,
                 invoked, uncaught, said, echo>>

\* client.on("message") with self set: the room emits back a text the client
\* said itself, and the listener returns at once.
TwitchSelfMessage ==
  /\ echo # <<>>
  /\ echo' = Tail(echo)
  /\ sent' = <<>>
  /\ lastOp' = [op |-> "twitchMessage", self |-> TRUE, text |-> Head(echo)]
  /\ UNCHANGED <<connectedClaws, readyState, recentChat, currentFrame,
                 streamStartedAt, now, chatCount, owner, clawMessageHandlers,
                 invoked, uncaught, connected, said>>

\* The transport stops being writable (close frame received or socket
\* error): readyState leaves OPEN before 'close' is emitted.
TransportClosing(w) ==
  /\ readyState[w] = "OPEN"
  /\ readyState' = [readyState EXCEPT ![w] = "CLOSING"]
  /\ sent' = <<>>
  /\ lastOp' = [op |-> "closing", ws |-> w]
  /\ UNCHANGED <<connectedClaws, recentChat, currentFrame, streamStartedAt,
                 now, chatCount, owner>>
  /\ UNCHANGED bridgeVars

\* ws.on("close") -> handleClawDisconnect(ws); readyState is CLOSED by then.
HandleClawDisconnect(w) ==
  /\ readyState[w] \in {"OPEN", "CLOSING"}
  /\ readyState' = [readyState EXCEPT ![w] = "CLOSED"]
  /\ lastOp' = [op |-> "close", ws |-> w,
                found |-> FirstWith(connectedClaws, w) # 0]
  /\ LET i == FirstWith(connectedClaws, w)
     IN IF i = 0
          THEN /\ sent' = <<>>
               /\ UNCHANGED connectedClaws
          ELSE LET claws == MapDelete(connectedClaws, connectedClaws[i].id)
                   message == StateMessage(claws, recentChat, currentFrame,
                                           streamStartedAt, now)
               IN /\ sent' = BroadcastSends(claws, readyState', message)
                  /\ connectedClaws' = BroadcastKeep(claws, readyState')
  /\ UNCHANGED <<recentChat, currentFrame, streamStartedAt, now, chatCount, owner>>
  /\ UNCHANGED bridgeVars

\* A buggy frame cell: keeps the first frame ever published.
KeepFirstFrame(current, frame) == IF current = NoFrame THEN frame ELSE current

\* this.currentFrame = frame
PublishedFrame(current, frame) == frame

\* broadcastFrame(frame)
BroadcastFrame(frame) ==
  /\ currentFrame' = PublishedFrame(currentFrame, frame)
  /\ sent' = BroadcastSends(connectedClaws, readyState,
                            VisionBroadcast("frame", frame, now))
  /\ connectedClaws' = BroadcastKeep(connectedClaws, readyState)
  /\ lastOp' = [op |-> "broadcastFrame", frame |-> frame, was |-> currentFrame,
                pruned |-> Len(connectedClaws) - Len(connectedClaws')]
  /\ UNCHANGED <<readyState, recentChat, streamStartedAt, now, chatCount, owner>>
  /\ UNCHANGED bridgeVars

\* A buggy history: the new event goes to the front.
PushChatFront(chat, e) ==
  IF Len(chat) + 1 > maxChatHistory THEN <<e>> \o SubSeq(chat, 1, Len(chat) - 1)
  ELSE <<e>> \o chat

\* A buggy history: at capacity the newest event is dropped, not the oldest.
PushChatDropNewest(chat, e) ==
  IF Len(chat) + 1 > maxChatHistory THEN chat ELSE Append(chat, e)

\* recentChat.push(e); if (length > maxChatHistory) recentChat.shift()
PushChat(chat, e) ==
  LET pushed == Append(chat, e)
  IN IF Len(pushed) > maxChatHistory THEN SubSeq(pushed, 2, Len(pushed))
     ELSE pushed

\* The n-th chat event the hub is handed.  seq stands for the identity of
\* the event (its timestamp and content).
ChatEvent(n) ==
  [seq |-> n, username |-> "viewer", displayName |-> "Viewer", message |-> "hello"]

\* broadcastChatMessage(chatMessage)
BroadcastChatMessage(e) ==
  /\ recentChat' = PushChat(recentChat, e)
  /\ chatCount' = chatCount + 1
  /\ sent' = BroadcastSends(connectedClaws, readyState,
                            VisionBroadcast("chat", e, now))
  /\ connectedClaws' = BroadcastKeep(connectedClaws, readyState)
  /\ lastOp' = [op |-> "broadcastChatMessage", event |-> e,
                pruned |-> Len(connectedClaws) - Len(connectedClaws')]
  /\ UNCHANGED <<readyState, currentFrame, streamStartedAt, now, owner>>
  /\ UNCHANGED bridgeVars

\* broadcastTranscript(transcript)
BroadcastTranscript(text) ==
  /\ sent' = BroadcastSends(connectedClaws, readyState,
                VisionBroadcast("transcript", [text |-> text, timestamp |-> now], now))
  /\ connectedClaws' = BroadcastKeep(connectedClaws, readyState)
  /\ lastOp' = [op |-> "broadcastTranscript", text |-> text,
                pruned |-> Len(connectedClaws) - Len(connectedClaws')]
  /\ UNCHANGED <<readyState, recentChat, currentFrame, streamStartedAt, now,
                 chatCount, owner>>
  /\ UNCHANGED bridgeVars

\* A buggy live flag: every setStreamLive(true) restarts the stream clock.
StartedAtReset(startedAt, isLive, t) == IF isLive THEN t ELSE NullTime

\* The two branches of setStreamLive.
StartedAtAfter(startedAt, isLive, t) ==
  IF isLive /\ startedAt = NullTime THEN t
  ELSE IF ~isLive /\ startedAt # NullTime THEN NullTime
  ELSE startedAt

\* setStreamLive(isLive)
SetStreamLive(isLive) ==
  /\ streamStartedAt' = StartedAtAfter(streamStartedAt, isLive, now)
  /\ sent' = BroadcastSends(connectedClaws, readyState,
                StateMessage(connectedClaws, recentChat, currentFrame,
                             streamStartedAt', now))
  /\ connectedClaws' = BroadcastKeep(connectedClaws, readyState)
  /\ lastOp' = [op |-> "setStreamLive", isLive |-> isLive,
                wasStartedAt |-> streamStartedAt]
  /\ UNCHANGED <<readyState, recentChat, currentFrame, now, chatCount, owner>>
  /\ UNCHANGED bridgeVars

\* Time passes between two handlers.
Tick ==
  /\ now < MaxTime
  /\ now' = now + 1
  /\ sent' = <<>>
  /\ lastOp' = [op |-> "tick"]
  /\ UNCHANGED <<connectedClaws, readyState, recentChat, currentFrame,
                 streamStartedAt, chatCount, owner>>
  /\ UNCHANGED bridgeVars

\* A step of the process: a listener runs only while the process lives.
\* What the peers received is not logged.
Hub(A) ==
  /\ ~uncaught
  /\ phase = "running"
  /\ A
  /\ UNCHANGED peerVars
  /\ UNCHANGED chatVars
  /\ UNCHANGED aggVars
  /\ UNCHANGED outerVars

\* What a peer logs of the sends to its transport: for each message n, the
\* rank of the handler that sent it among the handlers that sent anything.
Received(sends, w, n) ==
  [k \in 1..Len(SelectSeq(sends, LAMBDA m : m.to = w)) |-> n]

\* A buggy transport: the peer sees the latest message first.
DeliverPrepend(box, sends, n) == [w \in WS |-> Received(sends, w, n) \o box[w]]

\* claw.ws.send(serialized): a transport hands its peer what is written to
\* it, in the order written.
Deliver(box, sends, n) == [w \in WS |-> box[w] \o Received(sends, w, n)]

\* A step of the process, with the peers logging what they receive.
Peers(A) ==
  /\ ~uncaught
  /\ published < MaxPublish
  /\ A
  /\ published' = IF sent' = <<>> THEN published ELSE published + 1
  /\ inbox' = Deliver(inbox, sent', published')
  /\ UNCHANGED chatVars
  /\ UNCHANGED aggVars
  /\ UNCHANGED outerVars

\* ------------------------------------------------------------ chat client

\* What the hub keeps, besides the sends and the name of the last handler.
hubVars == <<connectedClaws, readyState, recentChat, currentFrame,
             streamStartedAt, now, chatCount, owner>>

\* A step of the chat client: the hub is not called and sends nothing.
Chat(A) ==
  /\ ~uncaught
  /\ A
  /\ sent' = <<>>
  /\ UNCHANGED hubVars
  /\ UNCHANGED peerVars
  /\ UNCHANGED outerVars
  /\ UNCHANGED <<clawMessageHandlers, invoked, uncaught>>
  /\ UNCHANGED aggVars

\* A rotation that builds the new transport with the credential of the one
\* it replaces.
CreateClientOldToken(cs, token, n) ==
  Append(cs, [token |-> cs[Len(cs)].token, state |-> "new", seen |-> n])

\* createClient: this.client becomes a new tmi client whose identity holds
\* currentToken; it will see what the room posts from now on.
CreateClient(cs, token, n) ==
  Append(cs, [token |-> token, state |-> "new", seen |-> n])

\* this.client changes state.
SetState(cs, st) == [cs EXCEPT ![Len(cs)].state = st]

\* A rotation that leaves the transport it replaces joined to the room.
ReleaseKeep(cs) == cs

\* await this.client.disconnect().catch(() => {}): whether it resolves or
\* rejects, the replaced transport has left the room.
Release(cs) == SetState(cs, "closed")

\* A listener that lets the client's own messages through.
SelfDroppedNever(self) == FALSE

\* if (self) return
SelfDropped(self) == self

\* scheduleTokenRefresh(): the refresh timer is armed.
ScheduleTokenRefresh ==
  /\ refreshTimer' = "refresh"
  /\ scheduled' = TRUE
  /\ waited' = 0

\* connect(): with refresh credentials the token is validated first,
\* otherwise the transport connects at once.
Connect(auto) ==
  /\ connectPc = "idle"
  /\ connectPc' = IF auto THEN "validating" ELSE "connecting"
  /\ clients' = IF auto THEN clients ELSE SetState(clients, "connecting")
  /\ lastOp' = [op |-> "connect", auto |-> auto]
  /\ UNCHANGED <<currentToken, refreshTimer, refreshPc, scheduled, stopped,
                 waited, lastAttempt, roomCount, handled, connected, said, echo>>

\* How validateToken ends: the token has more than ten minutes left, it has
\* not (or the answer is not ok), or the fetch threw.
ValidateResults == {"valid", "invalid", "threw"}

\* validateAndRefreshToken after validateToken settled: a valid token is
\* kept and connect() goes on; an invalid one starts refreshToken inside the
\* try, a failed validation starts it in the catch.
ValidateDone(result) ==
  /\ connectPc = "validating"
  /\ IF result = "valid"
       THEN /\ ScheduleTokenRefresh
            /\ connectPc' = "connecting"
            /\ clients' = SetState(clients, "connecting")
            /\ refreshPc' = refreshPc
       ELSE /\ connectPc' = IF result = "invalid" THEN "refreshing"
                                                  ELSE "retrying"
            /\ refreshPc' = "fetching"
            /\ UNCHANGED <<refreshTimer, scheduled, waited, clients>>
  /\ lastOp' = [op |-> "validateDone", result |-> result]
  /\ UNCHANGED <<currentToken, stopped, lastAttempt, roomCount, handled,
                 connected, said, echo>>

\* A timer of scheduleTokenRefresh fires: the refresh timer starts an
\* attempt, the retry timer calls scheduleTokenRefresh().
TimerFires ==
  /\ refreshTimer # "none"
  /\ waited' = waited + (IF refreshTimer = "refresh" THEN RefreshInterval
                                                      ELSE RetryDelay)
  /\ IF refreshTimer = "refresh"
       THEN /\ refreshTimer' = "none"
            /\ refreshPc' = "fetching"
            /\ lastOp' = [op |-> "refreshAttempt", after |-> lastAttempt,
                          waited |-> waited']
       ELSE /\ refreshTimer' = "refresh"
            /\ refreshPc' = refreshPc
            /\ lastOp' = [op |-> "retryTimer"]
  /\ UNCHANGED <<clients, currentToken, connectPc, scheduled, stopped,
                 lastAttempt, roomCount, handled, connected, said, echo>>

\* refreshToken returned: connect() goes on to schedule and to connect the
\* transport; the timer's callback reschedules.
RefreshSucceeded(cs) ==
  /\ ScheduleTokenRefresh
  /\ refreshPc' = "idle"
  /\ IF connectPc \in {"refreshing", "retrying"}
       THEN /\ connectPc' = "connecting"
            /\ clients' = SetState(cs, "connecting")
            /\ lastAttempt' = lastAttempt
       ELSE /\ connectPc' = connectPc
            /\ clients' = cs
            /\ lastAttempt' = "ok"

\* A catch that arms no timer.
RetryNever == "none"

\* catch: this.refreshTimer = setTimeout(..., 5 * 60 * 1000)
Retry == "retry"

\* refreshToken threw: inside the try of validateAndRefreshToken the catch
\* calls refreshToken once more, from the catch connect() rejects; the
\* timer's callback arms the retry timer.
RefreshFailed ==
  /\ IF connectPc = "refreshing"
       THEN /\ connectPc' = "retrying"
            /\ refreshPc' = "fetching"
            /\ UNCHANGED <<refreshTimer, waited, lastAttempt>>
       ELSE IF connectPc = "retrying"
       THEN /\ connectPc' = "failed"
            /\ refreshPc' = "idle"
            /\ UNCHANGED <<refreshTimer, waited, lastAttempt>>
       ELSE /\ connectPc' = connectPc
            /\ refreshPc' = "idle"
            /\ refreshTimer' = Retry
            /\ waited' = 0
            /\ lastAttempt' = "failed"
  /\ scheduled' = scheduled

\* refreshToken after its fetch: a failed response throws; a new credential
\* is stored, and with an established connection the transport is replaced.
FetchDone(ok) ==
  /\ refreshPc = "fetching"
  /\ IF ok
       THEN /\ currentToken < MaxTokens
            /\ currentToken' = currentToken + 1
            /\ IF connected
                 THEN /\ refreshPc' = "disconnecting"
                      /\ clients' = SetState(clients, "closing")
                      /\ UNCHANGED <<refreshTimer, scheduled, waited,
                                     connectPc, lastAttempt>>
                 ELSE RefreshSucceeded(clients)
       ELSE /\ RefreshFailed
            /\ UNCHANGED <<currentToken, clients>>
  /\ lastOp' = [op |-> "fetchDone", ok |-> ok]
  /\ UNCHANGED <<stopped, roomCount, handled, connected, said, echo>>

\* reconnectWithNewToken after the old transport's disconnect settled:
\* createClient() and the new transport starts to connect.
DisconnectDone ==
  /\ refreshPc = "disconnecting"
  /\ clients' = SetState(CreateClient(Release(clients), currentToken, roomCount),
                         "connecting")
  /\ connected' = FALSE
  /\ refreshPc' = "connecting"
  /\ lastOp' = [op |-> "disconnectDone"]
  /\ UNCHANGED <<currentToken, refreshTimer, connectPc, scheduled, stopped,
                 waited, lastAttempt, roomCount, handled, said, echo>>

\* reconnectWithNewToken after the new transport's connect settled.
ReconnectDone(ok) ==
  /\ refreshPc = "connecting"
  /\ IF ok
       THEN /\ clients' = [SetState(clients, "open") EXCEPT
                             ![Len(clients)].seen = roomCount]
            /\ connected' = TRUE
            /\ ScheduleTokenRefresh
            /\ refreshPc' = "idle"
            /\ lastAttempt' = "ok"
       ELSE /\ clients' = SetState(clients, "closed")
            /\ connected' = connected
            /\ RefreshFailed
  /\ connectPc' = connectPc
  /\ lastOp' = [op |-> "reconnectDone", ok |-> ok]
  /\ UNCHANGED <<currentToken, stopped, roomCount, handled, said, echo>>

\* connect() after this.client.connect() settled.
ConnectDone(ok) ==
  /\ connectPc = "connecting"
  /\ clients[Len(clients)].state = "connecting"
  /\ clients' = IF ok THEN [SetState(clients, "open") EXCEPT
                              ![Len(clients)].seen = roomCount]
                      ELSE SetState(clients, "closed")
  /\ connected' = (ok \/ connected)
  /\ connectPc' = IF ok THEN "done" ELSE "failed"
  /\ lastOp' = [op |-> "connectDone", ok |-> ok]
  /\ UNCHANGED <<currentToken, refreshTimer, refreshPc, scheduled, stopped,
                 waited, lastAttempt, roomCount, handled, said, echo>>

\* client.on("disconnected"): the transport lost the room.
TransportLost ==
  /\ clients[Len(clients)].state = "open"
  /\ clients' = SetState(clients, "lost")
  /\ connected' = FALSE
  /\ lastOp' = [op |-> "transportLost"]
  /\ UNCHANGED <<currentToken, refreshTimer, refreshPc, connectPc, scheduled,
                 stopped, waited, lastAttempt, roomCount, handled, said, echo>>

\* client.on("connected") after a loss: the transport rejoined the room by
\* itself, with the credential it was built with.
TransportBack ==
  /\ clients[Len(clients)].state = "lost"
  /\ clients' = [SetState(clients, "open") EXCEPT
                   ![Len(clients)].seen = roomCount]
  /\ connected' = TRUE
  /\ lastOp' = [op |-> "transportBack"]
  /\ UNCHANGED <<currentToken, refreshTimer, refreshPc, connectPc, scheduled,
                 stopped, waited, lastAttempt, roomCount, handled, said, echo>>

\* disconnect(): the pending timer is cleared and an established connection
\* is closed.
Disconnect ==
  /\ ~stopped
  /\ stopped' = TRUE
  /\ refreshTimer' = "none"
  /\ clients' = IF connected THEN SetState(clients, "closed") ELSE clients
  /\ connected' = FALSE
  /\ lastOp' = [op |-> "disconnect"]
  /\ UNCHANGED <<currentToken, refreshPc, connectPc, scheduled, waited,
                 lastAttempt, roomCount, handled, said, echo>>

\* sendClawMessage(clawName, message)
SendClawMessage(clawName, message) ==
  /\ said' = SendMessage(connected, said, FormatClawMessage(clawName, message))
  /\ echo' = SendMessage(connected, echo, FormatClawMessage(clawName, message))
  /\ lastOp' = [op |-> "sendClawMessage", clawName |-> clawName,
                message |-> message, during |-> refreshPc]
  /\ UNCHANGED <<clients, currentToken, refreshTimer, refreshPc, connectPc,
                 scheduled, stopped, waited, lastAttempt, roomCount, handled,
                 connected>>

\* Somebody else posts a message in the room.
RoomPost ==
  /\ roomCount < MaxRoom
  /\ roomCount' = roomCount + 1
  /\ lastOp' = [op |-> "roomPost"]
  /\ UNCHANGED <<clients, currentToken, refreshTimer, refreshPc, connectPc,
                 scheduled, stopped, waited, lastAttempt, handled, connected,
                 said, echo>>

\* client.on("message") of transport c: either the room delivers the next
\* message the transport has not seen, or the transport emits a text the
\* client said (self). What is not dropped goes to the message handlers;
\* main() registered one, which calls broadcastChatMessage.
TwitchMessage(c, self) ==
  /\ ~uncaught
  /\ clients[c].state \in {"open", "closing"}
  /\ IF self
       THEN /\ echo # <<>>
            /\ echo' = Tail(echo)
            /\ clients' = clients
       ELSE /\ clients[c].seen < roomCount
            /\ echo' = echo
            /\ clients' = [clients EXCEPT ![c].seen = @ + 1]
  /\ IF SelfDropped(self)
       THEN /\ sent' = <<>>
            /\ lastOp' = [op |-> "twitchMessage", self |-> TRUE]
            /\ UNCHANGED <<connectedClaws, recentChat, chatCount, handled>>
       ELSE /\ handled' = Append(handled, IF self THEN 0 ELSE clients[c].seen + 1)
            /\ recentChat' = PushChat(recentChat, ChatEvent(chatCount + 1))
            /\ chatCount' = chatCount + 1
            /\ sent' = BroadcastSends(connectedClaws, readyState,
                         VisionBroadcast("chat", ChatEvent(chatCount + 1), now))
            /\ connectedClaws' = BroadcastKeep(connectedClaws, readyState)
            /\ lastOp' = [op |-> "broadcastChatMessage",
                          event |-> ChatEvent(chatCount + 1),
                          pruned |-> Len(connectedClaws) - Len(connectedClaws')]
  /\ UNCHANGED <<readyState, currentFrame, streamStartedAt, now, owner,
                 clawMessageHandlers, invoked, uncaught, connected, said,
                 currentToken, refreshTimer, refreshPc, connectPc, scheduled,
                 stopped, waited, lastAttempt, roomCount>>
  /\ UNCHANGED peerVars
  /\ UNCHANGED outerVars
  /\ UNCHANGED aggVars

\* --------------------------------------------------- transcript aggregator

\* What the transcription answers for the chunks of a speech, once trimmed
\* and accepted: the k-th accepted fragment is the k-th of these.
Fragments == <<"Hello", "world", "how", "are", "you", "today", "my", "friends">>

\* A step of a transcript aggregator: the hub and the chat client rest.
Agg(A) ==
  /\ A
  /\ UNCHANGED <<connectedClaws, readyState, recentChat, currentFrame,
                 streamStartedAt, now, chatCount, sent, lastOp, owner>>
  /\ UNCHANGED bridgeVars
  /\ UNCHANGED peerVars
  /\ UNCHANGED outerVars
  /\ UNCHANGED chatVars

\* transcriptBuffer.join(" "), as the pieces of the text.
RECURSIVE Join(_)
Join(buf) ==
  IF Len(buf) <= 1 THEN buf ELSE <<buf[1], " ">> \o Join(Tail(buf))

\* String.trim() on the pieces of a text: the blank ones at both ends go.
RECURSIVE Trim(_)
Trim(text) ==
  IF text = <<>> THEN text
  ELSE IF Head(text) = " " THEN Trim(Tail(text))
  ELSE IF text[Len(text)] = " " THEN Trim(SubSeq(text, 1, Len(text) - 1))
  ELSE text

\* clearTimeout(handle): the timer the handle names will not fire; a handle
\* of a timer that fired names nothing.
ClearTimeout(ts, handle) ==
  IF \E i \in 1..Len(ts) : ts[i] = handle
    THEN LET i == CHOOSE i \in 1..Len(ts) :
                    ts[i] = handle /\ \A j \in 1..(i - 1) : ts[j] # handle
         IN SubSeq(ts, 1, i - 1) \o SubSeq(ts, i + 1, Len(ts))
    ELSE ts

\* flushBuffer sets bufferTimeout to null and calls no clearTimeout: the
\* timers that were to fire still fire.
FlushTimers(ts, handle) == ts

\* flushBuffer() on buffer buf: nothing for an empty buffer; otherwise the
\* buffer is emptied, the handle is dropped, and the joined, trimmed text,
\* if not empty, is handed to the handlers with the time of the flush.
FlushBuffer(buf) ==
  IF buf = <<>>
    THEN /\ transcriptBuffer' = buf
         /\ UNCHANGED <<bufferTimeout, emitted>>
    ELSE /\ transcriptBuffer' = <<>>
         /\ bufferTimeout' = NoTimer
         /\ emitted' = IF Trim(Join(buf)) # <<>>
                         THEN Append(emitted, [text |-> Trim(Join(buf)),
                                               timestamp |-> aggNow])
                         ELSE emitted

\* The history of accepted fragments.
Arrived(text) ==
  arrivals' = Append(arrivals, [at |-> aggNow, text |-> text,
                                first |-> transcriptBuffer = <<>>])

\* TwitchAudioCapture.addToBuffer(text)
AddToBuffer(text) ==
  /\ Len(arrivals) < MaxFragments
  /\ Arrived(text)
  /\ bufferStartTime' = IF transcriptBuffer = <<>> THEN aggNow
                                                   ELSE bufferStartTime
  /\ IF aggNow - bufferStartTime' >= MAX_BUFFER_TIME_MS
       THEN /\ FlushBuffer(Append(transcriptBuffer, text))
            /\ timers' = FlushTimers(timers, bufferTimeout)
       ELSE /\ transcriptBuffer' = Append(transcriptBuffer, text)
            /\ timers' = Append(ClearTimeout(timers, bufferTimeout),
                                aggNow + BUFFER_DELAY_MS)
            /\ bufferTimeout' = aggNow + BUFFER_DELAY_MS
            /\ emitted' = emitted
  /\ aggNow' = aggNow

\* AudioTranscriber.addToBuffer(text)
MicAddToBuffer(text) ==
  /\ Len(arrivals) < MaxFragments
  /\ Arrived(text)
  /\ transcriptBuffer' = Append(transcriptBuffer, text)
  /\ timers' = Append(ClearTimeout(timers, bufferTimeout),
                      aggNow + MIC_BUFFER_DELAY_MS)
  /\ bufferTimeout' = aggNow + MIC_BUFFER_DELAY_MS
  /\ UNCHANGED <<aggNow, bufferStartTime, emitted>>

\* A timer of addToBuffer is due: its callback calls flushBuffer().
BufferTimeoutFires ==
  \E i \in 1..Len(timers) :
    /\ timers[i] <= aggNow
    /\ timers' = SubSeq(timers, 1, i - 1) \o SubSeq(timers, i + 1, Len(timers))
    /\ FlushBuffer(transcriptBuffer)
    /\ UNCHANGED <<aggNow, bufferStartTime, arrivals>>

\* The letters String.toLowerCase() changes, and what it makes of them.
UpperCase == "ABCDEFGHIJKLMNOPQRSTUVWXYZ"
LowerCase == "abcdefghijklmnopqrstuvwxyz"

\* What String.toLowerCase() makes of each letter it changes.
LowerOf ==
  [c \in {SubSeq(UpperCase, i, i) : i \in 1..Len(UpperCase)} |->
     LET i == CHOOSE i \in 1..Len(UpperCase) : SubSeq(UpperCase, i, i) = c
     IN SubSeq(LowerCase, i, i)]

\* String.toLowerCase()
RECURSIVE ToLowerCase(_)
ToLowerCase(s) ==
  IF s = "" THEN s
  ELSE LET c == SubSeq(s, 1, 1)
       IN (IF c \in DOMAIN LowerOf THEN LowerOf[c] ELSE c)
            \o ToLowerCase(SubSeq(s, 2, Len(s)))

\* String.trim()
RECURSIVE StrTrim(_)
StrTrim(s) ==
  IF s = "" THEN s
  ELSE IF SubSeq(s, 1, 1) = " " THEN StrTrim(SubSeq(s, 2, Len(s)))
  ELSE IF SubSeq(s, Len(s), Len(s)) = " " THEN StrTrim(SubSeq(s, 1, Len(s) - 1))
  ELSE s

\* String.includes(h)
Includes(s, h) ==
  \E i \in 1..(Len(s) - Len(h) + 1) : SubSeq(s, i, i + Len(h) - 1) = h

\* isValidTranscript: obviousHallucinations
obviousHallucinations ==
  {"thanks for watching", "thank you for watching", "subscribe",
   "like and subscribe"}

\* A filter that lets every text through.
IsValidTranscriptAlways(text) == TRUE

\* TwitchAudioCapture.isValidTranscript(text)
IsValidTranscript(text) ==
  /\ Len(StrTrim(text)) # 0
  /\ ~\E h \in obviousHallucinations : Includes(ToLowerCase(StrTrim(text)), h)

\* What the transcription may answer for a chunk.
Responses ==
  {"Hello", " world ", "", "  ", "Thanks for watching!", "please SUBSCRIBE"}

\* TwitchAudioCapture.transcribeChunk after the transcription answered:
\* the trimmed text enters the buffer if it is valid, and is logged if not.
TranscribeChunk(response) ==
  /\ IF IsValidTranscript(StrTrim(response))
       THEN AddToBuffer(StrTrim(response))
       ELSE UNCHANGED aggVars
  /\ lastOp' = [op |-> "transcribeChunk", response |-> response]
  /\ UNCHANGED <<connectedClaws, readyState, recentChat, currentFrame,
                 streamStartedAt, now, chatCount, sent, owner>>
  /\ UNCHANGED bridgeVars
  /\ UNCHANGED peerVars
  /\ UNCHANGED outerVars
  /\ UNCHANGED chatVars

\* Time passes, once every timer that is due has fired.
AggTick ==
  /\ aggNow < MaxSteps * TimeStep
  /\ \A i \in 1..Len(timers) : timers[i] > aggNow
  /\ aggNow' = aggNow + TimeStep
  /\ UNCHANGED <<transcriptBuffer, bufferTimeout, bufferStartTime, timers,
                 emitted, arrivals>>

\* ---------------------------------------------------------------- startup

\* A step of main() before the hub runs.
Boot(A) ==
  /\ A
  /\ UNCHANGED <<connectedClaws, readyState, recentChat, currentFrame,
                 streamStartedAt, now, chatCount, sent, lastOp, owner, env,
                 lastState, registeredFrom, chunkIndex, inFlight>>
  /\ UNCHANGED clawVars
  /\ UNCHANGED bridgeVars
  /\ UNCHANGED peerVars
  /\ UNCHANGED chatVars
  /\ UNCHANGED aggVars

\* A requireEnv that takes any value.
RequireEnvLax(value) == TRUE

\* requireEnv: the value is returned unless it is missing or empty
\* (!value), in which case it throws.
RequireEnv(value) == value \notin {"#undefined", ""}

\* main(): loadConfig() returns the configuration, or throws, on which
\* main().catch logs the error and calls process.exit(1).
LoadConfig ==
  /\ phase = "boot"
  /\ phase' = IF \A name \in RequiredEnv : RequireEnv(env[name])
                THEN "configured" ELSE "exited"

\* main(): the chat client and the hub are constructed and
\* broadcaster.start() makes the hub listen.
Start ==
  /\ phase = "configured"
  /\ phase' = "running"

\* Every operation of the hub.
Next ==
  \/ \E w \in WS : Hub(Connection(w))
  \/ \E w \in WS : \E raw \in RawMessages :
       Len(said) < MaxSaid /\ Hub(HandleClawMessage(w, raw))
  \/ \E h \in HandlerKinds :
       Len(clawMessageHandlers) < MaxHandlers /\ Hub(OnClawMessage(h))
  \/ \E up \in BOOLEAN : Hub(TwitchConnection(up))
  \/ Hub(TwitchSelfMessage)
  \/ \E w \in WS : Hub(TransportClosing(w))
  \/ \E w \in WS : Hub(HandleClawDisconnect(w))
  \/ \E f \in Frames : Hub(BroadcastFrame(f))
  \/ chatCount < MaxChat /\ Hub(BroadcastChatMessage(ChatEvent(chatCount + 1)))
  \/ Hub(BroadcastTranscript("Hello world"))
  \/ \E b \in BOOLEAN : Hub(SetStreamLive(b))
  \/ Hub(Tick)

Spec == Init /\ [][Next]_vars

\* The session registry: connections, registrations, keep-alives, closes,
\* with a publish that touches no buffer, as time passes.
NextRegistry ==
  \/ \E w \in WS : Hub(Connection(w))
  \/ \E w \in WS : \E raw \in Registers \cup {Ping} : Hub(HandleClawMessage(w, raw))
  \/ \E w \in WS : Hub(TransportClosing(w))
  \/ \E w \in WS : Hub(HandleClawDisconnect(w))
  \/ Hub(BroadcastTranscript("Hello world"))
  \/ Hub(Tick)

SpecRegistry == Init /\ [][NextRegistry]_vars

\* The three publishes over a churning registry.
NextPublish ==
  \/ \E w \in WS : Hub(Connection(w))
  \/ \E w \in WS : \E raw \in Registers : Hub(HandleClawMessage(w, raw))
  \/ \E w \in WS : Hub(TransportClosing(w))
  \/ \E w \in WS : Hub(HandleClawDisconnect(w))
  \/ \E f \in Frames : Hub(BroadcastFrame(f))
  \/ chatCount < MaxChat /\ Hub(BroadcastChatMessage(ChatEvent(chatCount + 1)))
  \/ Hub(BroadcastTranscript("Hello world"))

SpecPublish == Init /\ [][NextPublish]_vars

\* The live flag over a churning registry, as time passes.
NextLive ==
  \/ \E w \in WS : Hub(Connection(w))
  \/ \E w \in WS : \E raw \in Registers : Hub(HandleClawMessage(w, raw))
  \/ \E w \in WS : Hub(TransportClosing(w))
  \/ \E w \in WS : Hub(HandleClawDisconnect(w))
  \/ \E b \in BOOLEAN : Hub(SetStreamLive(b))
  \/ Hub(Tick)

SpecLive == Init /\ [][NextLive]_vars

\* Chat publishes past the capacity of the history, with sessions joining.
NextVolume ==
  \/ \E w \in WS : Hub(Connection(w))
  \/ \E w \in WS : Hub(HandleClawMessage(w, [type |-> "register", clawId |-> "c1",
                                         clawName |-> "Rex", content |-> Absent]))
  \/ chatCount < MaxVolume /\ Hub(BroadcastChatMessage(ChatEvent(chatCount + 1)))

SpecVolume == Init /\ [][NextVolume]_vars

\* Every kind of inbound message, with one name per id.
InboundMessages ==
  {r \in RawMessages : r.type = "register" /\ r.clawId = "c1" => r.clawName # "Ada"}
    \ {r \in Registers : r.clawId = "c2" /\ r.clawName = "Rex"}

\* Inbound messages of every kind over a small registry, as time passes.
NextInbound ==
  \/ \E w \in WS : Hub(Connection(w))
  \/ \E w \in WS : \E raw \in InboundMessages : Hub(HandleClawMessage(w, raw))
  \/ \E w \in WS : Hub(TransportClosing(w))
  \/ Hub(BroadcastTranscript("Hello world"))
  \/ Hub(Tick)

SpecInbound == Init /\ [][NextInbound]_vars

\* What the chat bridge is sent: two registrations and the client actions.
BridgeMessages ==
  {r \in Registers : (r.clawId = "c1") = (r.clawName = "Rex")} \cup ClientActions

\* The chat bridge: callbacks, client actions, the chat room and its echoes.
NextBridge ==
  \/ \E w \in WS : Hub(Connection(w))
  \/ \E w \in WS : \E raw \in BridgeMessages :
       Len(said) < MaxSaid /\ Hub(HandleClawMessage(w, raw))
  \/ \E h \in HandlerKinds :
       Len(clawMessageHandlers) < MaxHandlers /\ Hub(OnClawMessage(h))
  \/ \E up \in BOOLEAN : Hub(TwitchConnection(up))
  \/ Hub(TwitchSelfMessage)

SpecBridge == Init /\ [][NextBridge]_vars

\* Publishes, registrations and closes, with the peers logging what they
\* receive.
NextOrder ==
  \/ \E w \in WS : Peers(Connection(w))
  \/ \E w \in WS : \E raw \in BridgeMessages \cap Registers :
       Peers(HandleClawMessage(w, raw))
  \/ \E w \in WS : Peers(TransportClosing(w))
  \/ \E w \in WS : Peers(HandleClawDisconnect(w))
  \/ Peers(BroadcastFrame("A"))
  \/ chatCount < MaxChat /\ Peers(BroadcastChatMessage(ChatEvent(chatCount + 1)))
  \/ Peers(BroadcastTranscript("Hello world"))

SpecOrder == Init /\ [][NextOrder]_vars

\* What the room delivers to the hub's clients: one registered client, the
\* chat client connecting without refresh credentials, posts and own texts.
NextRoom ==
  \/ \E w \in WS : Hub(Connection(w))
  \/ \E w \in WS : \E raw \in {r \in Registers : r.clawId = "c1" /\ r.clawName = "Rex"} :
       Hub(HandleClawMessage(w, raw))
  \/ \E w \in WS : Hub(TransportClosing(w))
  \/ Chat(Connect(FALSE))
  \/ \E ok \in BOOLEAN : Chat(ConnectDone(ok))
  \/ Len(said) < MaxSaid /\ Chat(SendClawMessage("Rex", "hi"))
  \/ Chat(RoomPost)
  \/ \E c \in 1..Len(clients) : \E self \in BOOLEAN :
       chatCount < MaxChat /\ TwitchMessage(c, self)

SpecRoom == Init /\ [][NextRoom]_vars

\* The credential rotation of the chat client, with the room posting and
\* clients' texts handed to sendClawMessage.
NextRefresh ==
  \/ \E auto \in BOOLEAN : Chat(Connect(auto))
  \/ \E result \in ValidateResults : Chat(ValidateDone(result))
  \/ Chat(TimerFires)
  \/ \E ok \in BOOLEAN : Chat(FetchDone(ok))
  \/ Chat(DisconnectDone)
  \/ \E ok \in BOOLEAN : Chat(ReconnectDone(ok))
  \/ \E ok \in BOOLEAN : Chat(ConnectDone(ok))
  \/ Chat(TransportLost)
  \/ Chat(TransportBack)
  \/ Chat(Disconnect)
  \/ Len(said) < MaxSaid /\ Chat(SendClawMessage("Rex", "hi"))
  \/ Chat(RoomPost)
  \/ \E c \in 1..Len(clients) : TwitchMessage(c, FALSE)

SpecRefresh == Init /\ [][NextRefresh]_vars

\* The credential rotation alone, where every armed timer fires and every
\* awaited fetch, disconnect and connect settles.
NextRotation ==
  \/ \E auto \in BOOLEAN : Chat(Connect(auto))
  \/ \E result \in ValidateResults : Chat(ValidateDone(result))
  \/ Chat(TimerFires)
  \/ \E ok \in BOOLEAN : Chat(FetchDone(ok))
  \/ Chat(DisconnectDone)
  \/ \E ok \in BOOLEAN : Chat(ReconnectDone(ok))
  \/ \E ok \in BOOLEAN : Chat(ConnectDone(ok))
  \/ Chat(TransportLost)
  \/ Chat(TransportBack)
  \/ Chat(Disconnect)

SpecRotation ==
  /\ Init
  /\ [][NextRotation]_vars
  /\ WF_vars(Chat(TimerFires))
  /\ WF_vars(\E ok \in BOOLEAN : Chat(FetchDone(ok)))
  /\ WF_vars(Chat(DisconnectDone))
  /\ WF_vars(\E ok \in BOOLEAN : Chat(ReconnectDone(ok)))

\* The aggregator of TwitchAudioCapture: fragments, timers and time.
NextCapture ==
  \/ Len(arrivals) < Len(Fragments) /\ Agg(AddToBuffer(Fragments[Len(arrivals) + 1]))
  \/ Agg(BufferTimeoutFires)
  \/ Agg(AggTick)

SpecCapture == Init /\ [][NextCapture]_vars

\* The aggregator of AudioTranscriber: fragments, timers and time.
NextMic ==
  \/ Len(arrivals) < Len(Fragments) /\ Agg(MicAddToBuffer(Fragments[Len(arrivals) + 1]))
  \/ Agg(BufferTimeoutFires)
  \/ Agg(AggTick)

SpecMic == Init /\ [][NextMic]_vars

\* A step of the aggregator between two answers of the transcription.
Between(A) ==
  /\ A
  /\ lastOp' = [op |-> "aggregator"]
  /\ UNCHANGED <<connectedClaws, readyState, recentChat, currentFrame,
                 streamStartedAt, now, chatCount, sent, owner>>
  /\ UNCHANGED bridgeVars
  /\ UNCHANGED peerVars
  /\ UNCHANGED outerVars
  /\ UNCHANGED chatVars

\* The filter of TwitchAudioCapture in front of its aggregator.
NextFilter ==
  \/ \E response \in Responses :
       /\ Len(arrivals) < MaxHeard \/ ~IsValidTranscript(StrTrim(response))
       /\ TranscribeChunk(response)
  \/ Between(BufferTimeoutFires)
  \/ Between(AggTick)

SpecFilter == Init /\ [][NextFilter]_vars

\* The start of the process in any environment, and the registrations the
\* hub takes once it runs.
NextBoot ==
  \/ Boot(LoadConfig)
  \/ Boot(Start)
  \/ \E w \in WS : Hub(Connection(w))
  \/ \E w \in WS : \E raw \in BridgeMessages \cap Registers :
       Hub(HandleClawMessage(w, raw))
  \/ \E w \in WS : Hub(TransportClosing(w))
  \/ \E w \in WS : Hub(HandleClawDisconnect(w))

SpecBoot == InitBoot /\ [][NextBoot]_vars

\* ================================================================= claims
Participants ==
  GetStreamState(connectedClaws, recentChat, currentFrame, streamStartedAt).participants

ParticipantIds == {Participants[i].id : i \in 1..Len(Participants)}

\* Ids whose latest register came over a transport that is still open.
RegisteredOpen == {id \in ClawIds : owner[id] # 0 /\ readyState[owner[id]] = "OPEN"}

\* Ids whose latest register came over a transport whose close has not been
\* handled yet.
RegisteredNotClosed ==
  {id \in ClawIds : owner[id] # 0 /\ readyState[owner[id]] # "CLOSED"}

IsRegister(op) ==
  op.op = "message" /\ op.raw.type = "register"
    /\ op.raw.clawId # Absent /\ op.raw.clawName # Absent

C2_RegisterReplaces ==
  /\ \A i, j \in 1..Len(connectedClaws) :
       connectedClaws[i].id = connectedClaws[j].id => i = j
  /\ \A i, j \in 1..Len(Participants) :
       Participants[i].id = Participants[j].id => i = j
  /\ IsRegister(lastOp) =>
       \E i \in 1..Len(connectedClaws) :
         /\ connectedClaws[i].id = lastOp.raw.clawId
         /\ connectedClaws[i].ws = lastOp.ws
         /\ connectedClaws[i].participant.name = lastOp.raw.clawName
         /\ connectedClaws[i].participant.joinedAt = now

\* An id held by one transport has just been registered again from another,
\* later and under another name.
C2_Witness ==
  /\ IsRegister(lastOp)
  /\ lastOp.prev # 0 /\ lastOp.prev # lastOp.ws
  /\ readyState[lastOp.prev] = "OPEN"
  /\ now > 1
  /\ Len(connectedClaws) = 2
  /\ \E i \in 1..Len(connectedClaws) :
       /\ connectedClaws[i].id = lastOp.raw.clawId
       /\ connectedClaws[i].ws = lastOp.ws

\* C3: right after broadcastChatMessage(e), the recentChat of
\* getStreamState() ends with e, however many events were published before.
C3_NewChatIsLast ==
  lastOp.op = "broadcastChatMessage" =>
    LET tail == GetStreamState(connectedClaws, recentChat, currentFrame,
                               streamStartedAt).recentChat
    IN tail # <<>> /\ tail[Len(tail)] = lastOp.event

\* An event published when the history was already full is the last one.
C3_Witness ==
  /\ lastOp.op = "broadcastChatMessage"
  /\ chatCount > maxChatHistory
  /\ lastOp.event = ChatEvent(chatCount)
  /\ recentChat[Len(recentChat)] = lastOp.event

\* C4: the history never holds more than maxChatHistory events and the
\* recentChat of a snapshot never more than RecentChatTail; what is retained
\* is the latest events in publish order, so the evicted ones are the oldest.
C4_BoundedHistory ==
  LET n == Len(recentChat)
      tail == GetStreamState(connectedClaws, recentChat, currentFrame,
                             streamStartedAt).recentChat
  IN /\ n <= maxChatHistory
     /\ n = IF chatCount < maxChatHistory THEN chatCount ELSE maxChatHistory
     /\ \A i \in 1..n : recentChat[i] = ChatEvent(chatCount - n + i)
     /\ Len(tail) <= RecentChatTail
     /\ \A i \in 1..Len(tail) : tail[i] = ChatEvent(chatCount - Len(tail) + i)
     /\ \A i \in 1..Len(sent) :
          sent[i].msg.type = "state" =>
            Len(sent[i].msg.payload.recentChat) <= RecentChatTail

\* More events than the capacity were published: the first ones are gone and
\* a session that registers gets a state message with the last twenty.
C4_Witness ==
  /\ chatCount = maxChatHistory + 2
  /\ Len(recentChat) = maxChatHistory
  /\ recentChat[1] = ChatEvent(3)
  /\ IsRegister(lastOp)
  /\ sent # <<>>
  /\ Len(sent[1].msg.payload.recentChat) = RecentChatTail

\* C5: after broadcastFrame(A) then broadcastFrame(B), currentFrame is B:
\* the one frame retained is always the last one published.
C5_LastFrameWins ==
  lastOp.op = "broadcastFrame" =>
    GetStreamState(connectedClaws, recentChat, currentFrame,
                   streamStartedAt).currentFrame = lastOp.frame

\* B was published while A was the current frame.
C5_Witness ==
  /\ lastOp.op = "broadcastFrame"
  /\ lastOp.was = "A" /\ lastOp.frame = "B"
  /\ currentFrame = "B"

\* C6: a successful register sends a state message to every registered
\* session with an open transport, and the one the new session gets lists
\* its own id and name among the participants.
C6_RegisterBroadcastsState ==
  IsRegister(lastOp) =>
    /\ \A i \in 1..Len(connectedClaws) :
         readyState[connectedClaws[i].ws] = "OPEN" =>
           \E k \in 1..Len(sent) :
             /\ sent[k].to = connectedClaws[i].ws
             /\ sent[k].id = connectedClaws[i].id
             /\ sent[k].msg.type = "state"
    /\ \E k \in 1..Len(sent) :
         /\ sent[k].to = lastOp.ws
         /\ sent[k].id = lastOp.raw.clawId
         /\ sent[k].msg.type = "state"
         /\ \E j \in 1..Len(sent[k].msg.payload.participants) :
              /\ sent[k].msg.payload.participants[j].id = lastOp.raw.clawId
              /\ sent[k].msg.payload.participants[j].name = lastOp.raw.clawName

\* A second session registered while a first one, on another open
\* transport, was registered: both got the state message.
C6_Witness ==
  /\ IsRegister(lastOp)
  /\ Len(connectedClaws) = 2
  /\ connectedClaws[1].ws # lastOp.ws
  /\ connectedClaws[2].ws = lastOp.ws
  /\ Len(sent) = 2
  /\ sent[1].to = connectedClaws[1].ws
  /\ sent[2].to = lastOp.ws

\* The step is the handling of the close of transport w.
CloseStep(w) == readyState[w] # "CLOSED" /\ readyState'[w] = "CLOSED"

\* Every session left in the registry is sent a state message.
PresenceSent(claws, sends) ==
  \A i \in 1..Len(claws) :
    \E k \in 1..Len(sends) :
      /\ sends[k].to = claws[i].ws
      /\ sends[k].id = claws[i].id
      /\ sends[k].msg.type = "state"

\* C7 as stated: a close removes exactly the sessions of the closed
\* transport, leaves every other entry unchanged and broadcasts presence;
\* when no entry has that transport it changes nothing and sends nothing.
C7_CloseRemovesOnlyMatching ==
  [][\A w \in WS : CloseStep(w) =>
       IF \E i \in 1..Len(connectedClaws) : connectedClaws[i].ws = w
         THEN /\ connectedClaws' = SelectSeq(connectedClaws, LAMBDA c : c.ws # w)
              /\ PresenceSent(connectedClaws', sent')
         ELSE /\ connectedClaws' = connectedClaws
              /\ sent' = <<>>]_vars

\* C7, amended: a close removes the sessions of the closed transport and,
\* through the presence fan-out, the sessions whose transport is no longer
\* open; the entry of every session whose transport is open is unchanged and
\* each of them is sent the state; when no entry has the closed transport
\* the close changes nothing and sends nothing.
C7_CloseRemovesMatchingAndDead ==
  [][\A w \in WS : CloseStep(w) =>
       IF \E i \in 1..Len(connectedClaws) : connectedClaws[i].ws = w
         THEN /\ connectedClaws' =
                   SelectSeq(connectedClaws,
                             LAMBDA c : c.ws # w /\ readyState[c.ws] = "OPEN")
              /\ PresenceSent(connectedClaws', sent')
              /\ Len(sent') = Len(connectedClaws')
         ELSE /\ connectedClaws' = connectedClaws
              /\ sent' = <<>>]_vars

\* A registered transport closed and the session that remains, on an open
\* transport, was sent the state.
C7_Witness ==
  /\ lastOp.op = "close" /\ lastOp.found
  /\ Len(connectedClaws) = 1
  /\ connectedClaws[1].ws # lastOp.ws
  /\ Len(sent) = 1 /\ sent[1].to = connectedClaws[1].ws
  /\ sent[1].msg.type = "state"

PublishType ==
  [broadcastFrame |-> "frame", broadcastChatMessage |-> "chat",
   broadcastTranscript |-> "transcript"]

\* C8: a publish is sent exactly once to every registered session whose
\* transport is open when it is published, and such a session stays
\* registered; every session whose transport is not open is removed, and
\* the sessions after it in the registry are still served.
C8_PublishFanOut ==
  [][lastOp'.op \in DOMAIN PublishType =>
       /\ \A i \in 1..Len(connectedClaws) :
            LET c == connectedClaws[i]
            IN IF readyState[c.ws] = "OPEN"
                 THEN /\ Cardinality({k \in 1..Len(sent') :
                            sent'[k].to = c.ws /\ sent'[k].id = c.id}) = 1
                      /\ \E j \in 1..Len(connectedClaws') : connectedClaws'[j] = c
                 ELSE c.id \notin Keys(connectedClaws')
       /\ Len(sent') = Cardinality({i \in 1..Len(connectedClaws) :
                           readyState[connectedClaws[i].ws] = "OPEN"})
       /\ \A k \in 1..Len(sent') : sent'[k].msg.type = PublishType[lastOp'.op]
       /\ Len(connectedClaws') <= Len(connectedClaws)]_vars

\* A frame was published while one session's transport was no longer open:
\* that session was pruned and the other one got the frame.
C8_Witness ==
  /\ lastOp.op = "broadcastFrame"
  /\ lastOp.pruned = 1
  /\ Len(sent) = 1 /\ sent[1].msg.type = "frame"
  /\ Len(connectedClaws) = 1 /\ sent[1].to = connectedClaws[1].ws
  /\ \E id \in ClawIds :
       /\ owner[id] # 0 /\ readyState[owner[id]] = "CLOSING"
       /\ id \notin Keys(connectedClaws)

C10_BroadcastOnlyOnEdge ==
  (lastOp.op = "setStreamLive" /\ lastOp.isLive = (lastOp.wasStartedAt # NullTime)) =>
    sent = <<>>

\* C11: a registered session whose transport stays open and that sends no
\* ping is swept out of participants once the liveness timeout has passed.
\* One step of the clock stands for more than the timeout plus the period of
\* the sweep, so every session still listed over an open transport has been
\* seen at the present clock value.
C11_SilentSessionSwept ==
  \A i \in 1..Len(connectedClaws) :
    readyState[connectedClaws[i].ws] = "OPEN" =>
      Participants[i].lastSeen = now

\* C12: after an inbound chat, reaction, observation, register or ping from
\* a registered session, the lastSeen of that session (every entry of the
\* sending transport) is the time of the message.
C12_InboundRefreshesLastSeen ==
  (lastOp.op = "message"
     /\ lastOp.raw.type \in {"chat", "reaction", "observation", "register", "ping"}) =>
    \A i \in 1..Len(connectedClaws) :
      connectedClaws[i].ws = lastOp.ws => Participants[i].lastSeen = now

IsClientAction(op) ==
  op.op = "message" /\ op.raw.type \in {"chat", "reaction", "observation"}

\* C13: when a callback fails on a client action, every callback registered
\* with onClawMessage has still been called for that action and no exception
\* has left the hub, so the process goes on with later messages.
C13_HandlerFailureIsolated ==
  IsClientAction(lastOp) =>
    /\ Len(invoked) = Len(clawMessageHandlers)
    /\ ~uncaught

\* The payloads the hub is to drop: unparseable, not an object, a register
\* without clawId or clawName, an unknown type.
Malformed == InvalidRegisters \cup Dropped \cup {NullPayload}

\* C14: a malformed inbound message is dropped: the registry, the chat
\* history, the frame and the live flag are unchanged, nothing is sent, the
\* transport stays open and the hub goes on, so a session registered on the
\* transport keeps its place in the fan-outs.
C14_MalformedDropped ==
  [][(lastOp'.op = "message" /\ lastOp'.raw \in Malformed) =>
       /\ UNCHANGED <<connectedClaws, recentChat, currentFrame, streamStartedAt>>
       /\ sent' = <<>>
       /\ readyState'[lastOp'.ws] = "OPEN"
       /\ ~uncaught']_vars

\* The step is the handling of a ping.
PingStep == lastOp'.op = "message" /\ lastOp'.raw.type = "ping"

\* One pong, to the sender, and the same ids in the registry.
PongOnly ==
  /\ Len(sent') = 1
  /\ sent'[1].to = lastOp'.ws
  /\ sent'[1].msg = [type |-> "pong", timestamp |-> now]
  /\ Len(connectedClaws') = Len(connectedClaws)
  /\ \A i \in 1..Len(connectedClaws) :
       /\ connectedClaws'[i].id = connectedClaws[i].id
       /\ connectedClaws'[i].ws = connectedClaws[i].ws

MainWiring == clawMessageHandlers = <<"forward">>

\* The last handler was a client action of the given type, sent over the
\* transport that holds the registration of its clawId.
FromRegistered(type) ==
  /\ IsClientAction(lastOp)
  /\ lastOp.raw.type = type
  /\ lastOp.prev = lastOp.ws

\* A chat outbound message with this displayName and message was sent to
\* every registered session whose transport is open.
ChatSentToAll(name, content) ==
  \A i \in 1..Len(connectedClaws) :
    readyState[connectedClaws[i].ws] = "OPEN" =>
      \E k \in 1..Len(sent) :
        /\ sent[k].to = connectedClaws[i].ws
        /\ sent[k].msg.type = "chat"
        /\ sent[k].msg.payload.displayName = name
        /\ sent[k].msg.payload.message = content

\* The chat history holds an event with this displayName and message.
InChatHistory(name, content) ==
  \E i \in 1..Len(recentChat) :
    recentChat[i].displayName = name /\ recentChat[i].message = content

\* The event is in the history and was sent to every registered session.
ChatBroadcast(name, content) ==
  ChatSentToAll(name, content) /\ InChatHistory(name, content)

\* C16: when a registered client sends a chat action with clawName N and
\* content C, every registered client is sent a chat outbound message with
\* displayName N and message C and the event is in the chat history: when
\* the action is handled or, at the latest, when the room then emits the
\* forwarded text back to the chat client.
C16_ClientChatBroadcast ==
  [][(MainWiring /\ FromRegistered("chat") /\ lastOp'.op = "twitchMessage") =>
       \/ ChatBroadcast(lastOp.raw.clawName, lastOp.raw.content)
       \/ ChatBroadcast(lastOp.text[2], lastOp.text[4])']_vars

\* The distinguishing marker of the documented format: the crab emoji
\* (U+1F980) and a space.
CrabMarker == "<U+1F980> "

\* The step is the handling of a chat action under main()'s wiring, with
\* the chat room connected.
ChatStep ==
  /\ MainWiring /\ connected
  /\ IsClientAction(lastOp') /\ lastOp'.raw.type = "chat"

\* C17: a client chat action with display name N and content C produces
\* exactly one send to the chat room, whose text is the marker followed by
\* "[N]: C".
C17_RoomTextHasMarker ==
  [][ChatStep =>
       said' = Append(said, <<CrabMarker, "[", lastOp'.raw.clawName, "]: ",
                              lastOp'.raw.content>>)]_vars

\* The step is the handling of a client action under main()'s wiring.
ClientActionStep == MainWiring /\ IsClientAction(lastOp')

\* C18 as stated: the room receives one send per chat action and none for
\* an observation or a reaction.
C18_OneSendPerChat ==
  [][ClientActionStep =>
       Len(said') = Len(said) + (IF lastOp'.raw.type = "chat" THEN 1 ELSE 0)]_vars

\* C18, amended: an observation or a reaction is never forwarded to the
\* room; a chat action causes one send when the chat client is connected to
\* the room and none when it is not; what was sent before stays as it was.
C18_OneSendPerChatWhenConnected ==
  [][ClientActionStep =>
       /\ Len(said') =
            Len(said) + (IF lastOp'.raw.type = "chat" /\ connected THEN 1 ELSE 0)
       /\ SubSeq(said', 1, Len(said)) = said
       /\ lastOp'.raw.type = "chat" /\ connected =>
            said'[Len(said')][2] = lastOp'.raw.clawName]_vars

\* With the room connected, a chat action was forwarded and then an
\* observation was handled: the room still has the one send.
C18_Witness ==
  /\ MainWiring /\ connected
  /\ IsClientAction(lastOp) /\ lastOp.raw.type = "observation"
  /\ Len(said) = 1

\* The step is the handling of an observation or a reaction.
ObservationStep ==
  IsClientAction(lastOp') /\ lastOp'.raw.type \in {"observation", "reaction"}

\* C19 as stated: an observation or a reaction sent by one client is sent
\* to every other registered client whose transport is open.
C19_ObservationBroadcast ==
  [][ObservationStep =>
       \A i \in 1..Len(connectedClaws) :
         (connectedClaws[i].ws # lastOp'.ws
            /\ readyState[connectedClaws[i].ws] = "OPEN") =>
           \E k \in 1..Len(sent') : sent'[k].to = connectedClaws[i].ws]_vars

\* C19, amended: an observation or a reaction is handed to the callbacks
\* registered with onClawMessage (the one of main() logs it) and goes no
\* further: the hub sends nothing to any session, and the registry, the chat
\* history and what the room was sent are unchanged.
C19_ObservationOnlyLogged ==
  [][ObservationStep =>
       /\ sent' = <<>>
       /\ UNCHANGED <<connectedClaws, recentChat, currentFrame, streamStartedAt>>
       /\ MainWiring => (invoked' = <<1>> /\ said' = said /\ ~uncaught')]_vars

\* One registered client sent an observation while another client was
\* registered over another open transport: main()'s callback was called and
\* nothing was sent.
C19_Witness ==
  /\ MainWiring
  /\ FromRegistered("observation")
  /\ invoked = <<1>>
  /\ sent = <<>>
  /\ \E i \in 1..Len(connectedClaws) :
       /\ connectedClaws[i].ws # lastOp.ws
       /\ readyState[connectedClaws[i].ws] = "OPEN"

C21_SelfMessageDropped ==
  [][Len(echo') < Len(echo) =>
       /\ handled' = handled
       /\ recentChat' = recentChat
       /\ chatCount' = chatCount
       /\ sent' = <<>>]_vars

\* A registered client over an open transport is there when the chat
\* transport emits a text the client said itself, and nothing was published.
C21_Witness ==
  /\ lastOp = [op |-> "twitchMessage", self |-> TRUE]
  /\ RegisteredOpen # {}
  /\ Len(said) > Len(echo)
  /\ recentChat = <<>>
  /\ sent = <<>>

\* this.client
Client == clients[Len(clients)]

\* C22: when a credential refresh succeeds while a connection is
\* established, the existing transport is torn down and a new one is created
\* with the new credential: the step that stores the new credential starts
\* the teardown of the transport in use, the step that ends the teardown
\* leaves that transport closed and makes a new one holding the new
\* credential, which starts to connect, and no replaced transport is left
\* joined to the room.
C22_RotationReplacesTransport ==
  [][/\ (refreshPc = "fetching" /\ connected /\ currentToken' # currentToken) =>
          /\ refreshPc' = "disconnecting"
          /\ Len(clients') = Len(clients)
          /\ Client'.state = "closing"
     /\ (refreshPc = "disconnecting" /\ refreshPc' # "disconnecting") =>
          /\ Len(clients') = Len(clients) + 1
          /\ clients'[Len(clients)].state = "closed"
          /\ Client'.token = currentToken'
          /\ Client'.token # Client.token
          /\ Client'.state = "connecting"
     /\ \A i \in 1..(Len(clients') - 1) : clients'[i].state = "closed"]_vars

\* A refresh succeeded while connected: the first transport is closed and
\* the room is joined over a second one built with the new credential.
C22_Witness ==
  /\ lastOp = [op |-> "reconnectDone", ok |-> TRUE]
  /\ Len(clients) = 2
  /\ clients[1].state = "closed" /\ clients[1].token = 0
  /\ clients[2].state = "open" /\ clients[2].token = 1
  /\ currentToken = 1
  /\ connected

\* C23: once connect() has scheduled the proactive refresh, refreshing never
\* stops on its own: as long as disconnect() has not been called, a timer is
\* armed or an attempt is in flight, and whenever no attempt is in flight
\* one is eventually started (or disconnect() is called), also after failed
\* attempts.
C23_RefreshNeverStops ==
  /\ [](scheduled /\ ~stopped => refreshTimer # "none" \/ refreshPc # "idle")
  /\ (scheduled /\ ~stopped /\ refreshPc = "idle") ~>
       (stopped \/ refreshPc = "fetching")

\* A refresh attempt has started after an attempt of the timer failed, and
\* disconnect() has not been called.
C23_Witness ==
  /\ lastOp.op = "refreshAttempt"
  /\ lastOp.after = "failed"
  /\ scheduled
  /\ ~stopped
  /\ refreshPc = "fetching"

\* C24: after a scheduled refresh attempt fails, the next attempt is made
\* after the short retry delay (5 minutes), not after a further full
\* refresh interval (3 hours): an attempt that follows a failed one starts
\* when the timers have run down the retry delay and no more.
C24_RetryAfterShortDelay ==
  (lastOp.op = "refreshAttempt" /\ lastOp.after = "failed") =>
    lastOp.waited = RetryDelay

\* C25: a client chat message handed to sendClawMessage while a credential
\* rotation is tearing down and recreating the transport is still sent to
\* the room: after such a call the last text the room was sent is the
\* message, formatted with the sender's name.
C25_SentDuringRotation ==
  (lastOp.op = "sendClawMessage" /\ lastOp.during \in {"disconnecting", "connecting"}) =>
    /\ said # <<>>
    /\ said[Len(said)] = FormatClawMessage(lastOp.clawName, lastOp.message)

\* Transports that are joined to the room and can deliver its messages.
Joined == {c \in 1..Len(clients) : clients[c].state \in {"open", "closing"}}

\* C26: each message delivered by the room is passed to the registered
\* message handlers at most once, also while a rotation replaces the
\* transport, because the old and the new transport never both deliver: the
\* handled messages are pairwise distinct and at most one transport is
\* joined to the room at a time.
C26_HandledAtMostOnce ==
  /\ \A i, j \in 1..Len(handled) : i # j => handled[i] # handled[j]
  /\ \A c, d \in Joined : c = d

\* A first message was handled over the first transport, a rotation
\* replaced it, and a second message was handled over the second one.
C26_Witness ==
  /\ lastOp.op = "broadcastChatMessage"
  /\ handled = <<1, 2>>
  /\ Len(clients) = 2
  /\ clients[1].state = "closed" /\ clients[1].seen = 1
  /\ clients[2].state = "open" /\ clients[2].seen = 2
  /\ clients[2].token = 1

\* The texts of the accepted fragments i..j, in arrival order.
Texts(i, j) == [k \in 1..(j - i + 1) |-> arrivals[i + k - 1].text]

\* Fragment j was followed by a quiet period: nothing was accepted until
\* after the delay had passed.
QuietAfter(j, delay) ==
  IF j = Len(arrivals) THEN aggNow > arrivals[j].at + delay
                       ELSE arrivals[j + 1].at > arrivals[j].at + delay

\* Fragments i..j: the first entered an empty buffer, each next one came
\* within the quiet period of the one before, all came within the maximum
\* buffer duration, and a quiet period followed the last.
Burst(i, j, delay) ==
  /\ arrivals[i].first
  /\ \A k \in i..(j - 1) : arrivals[k + 1].at - arrivals[k].at < delay
  /\ arrivals[j].at - arrivals[i].at < MAX_BUFFER_TIME_MS
  /\ QuietAfter(j, delay)

\* Every such run of fragments was emitted as exactly one unit, whose text
\* is the fragments joined by single spaces, and has left the buffer.
OneUnitPerBurst(delay) ==
  \A i \in 1..Len(arrivals) : \A j \in i..Len(arrivals) :
    Burst(i, j, delay) =>
      /\ Cardinality({u \in 1..Len(emitted) :
                        emitted[u].text = Join(Texts(i, j))}) = 1
      /\ \A k \in i..j : \A u \in 1..Len(emitted) :
           (\E p \in 1..Len(emitted[u].text) :
              emitted[u].text[p] = arrivals[k].text) =>
             emitted[u].text = Join(Texts(i, j))
      /\ \A k \in i..j : \A p \in 1..Len(transcriptBuffer) :
           transcriptBuffer[p] # arrivals[k].text

\* C27: if accepted fragments f1..fn arrive each within the quiet period of
\* the previous one and within the maximum buffer duration, then after the
\* quiet period exactly one unit is emitted, its text is f1..fn joined by
\* single spaces in arrival order, and the fragments are in the buffer no
\* more and in no other unit.
C27_OneUnitPerBurst == OneUnitPerBurst(BUFFER_DELAY_MS)

\* C28: in TwitchAudioCapture the maximum buffer duration is a hard latency
\* ceiling: a buffer whose first fragment was accepted is flushed no later
\* than MAX_BUFFER_TIME_MS after it, so no fragment is in the buffer later
\* than that.
C28_HardLatencyCeiling ==
  transcriptBuffer # <<>> => aggNow <= bufferStartTime + MAX_BUFFER_TIME_MS

\* When the first fragment of the working buffer arrived.
BufferSince == arrivals[Len(arrivals) - Len(transcriptBuffer) + 1].at

\* C29: in AudioTranscriber, feeding accepted fragments continuously for
\* longer than the maximum buffer duration forces a flush: no fragment
\* stays in the buffer that was accepted the maximum buffer duration or
\* more after the buffer's first fragment.
C29_ContinuousSpeechFlushed ==
  transcriptBuffer # <<>> =>
    arrivals[Len(arrivals)].at - BufferSince < MAX_BUFFER_TIME_MS

\* C30: each accepted fragment cancels any pending quiet-period timer and
\* starts a new one, so at most one quiet-period timer is pending at any
\* time, also right after a max-duration flush.
C30_OneTimerPending == Len(timers) <= 1

\* A text that is empty or blank, or that holds a denylist phrase in any
\* case.
Rejected(text) ==
  \/ StrTrim(text) = ""
  \/ \E h \in obviousHallucinations : Includes(ToLowerCase(text), h)

\* The texts in the buffer and in the emitted units.
Kept ==
  {transcriptBuffer[p] : p \in 1..Len(transcriptBuffer)} \cup
  UNION {{emitted[u].text[p] : p \in 1..Len(emitted[u].text)} \ {" "} :
           u \in 1..Len(emitted)}

\* C31: a fragment that is empty or whitespace-only, or that contains a
\* denylist phrase in any case, is rejected before it enters the working
\* buffer: handling it leaves the buffer, the timers and the emitted units
\* unchanged, and no such text is in the buffer or in an emitted unit.
C31_RejectedNeverBuffered ==
  [][/\ (lastOp'.op = "transcribeChunk" /\ Rejected(lastOp'.response)) =>
          UNCHANGED <<transcriptBuffer, bufferTimeout, timers, emitted>>
     /\ \A text \in Kept' : ~Rejected(text)]_vars

\* A fragment with a denylist phrase in upper case was handled while a
\* fragment was in the buffer with its timer pending, and a unit was emitted
\* before.
C31_Witness ==
  /\ lastOp = [op |-> "transcribeChunk", response |-> "please SUBSCRIBE"]
  /\ transcriptBuffer = <<"world">>
  /\ timers # <<>>
  /\ emitted # <<>>

\* C32: if a required configuration value is missing, startup fails and the
\* process exits before the hub starts listening: in such a run the hub
\* never runs, no connection is accepted and no session is registered.
C32_MissingConfigFailsFast ==
  (\E name \in RequiredEnv : env[name] = "#undefined") =>
    /\ phase \in {"boot", "exited"}
    /\ \A w \in WS : readyState[w] = "NONE"
    /\ connectedClaws = <<>>

\* The process has exited with only the channel missing.
C32_Witness ==
  /\ phase = "exited"
  /\ env = [name \in RequiredEnv |->
              IF name = "TWITCH_CHANNEL" THEN "#undefined" ELSE "set"]

\* C33: whenever the chat manager is connected, the credential its transport
\* was created with is the manager's current credential.
C33_ConnectedWithCurrentToken ==
  connected => Client.token = currentToken

\* C34: a failure of the reconnect step after the old transport was torn
\* down does not leave chat silent for good when later refresh cycles
\* succeed: a refresh cycle of the timer that succeeds while the transport
\* made by the failed rotation is down leaves the manager connected.
C34_LaterCycleReconnects ==
  [][(/\ refreshPc # "idle" /\ refreshPc' = "idle" /\ lastAttempt' = "ok"
      /\ ~stopped
      /\ Len(clients) >= 2
      /\ Client.state = "closed") => connected']_vars

\* ----------------------------------------------------------------- presence
\* What the peer of transport w knows of presence after the sends of a
\* handler: the participants of the last state message written to w.
LastStateOf(known, sends, w) ==
  LET mine == SelectSeq(sends, LAMBDA m : m.to = w /\ m.msg.type = "state")
  IN IF mine = <<>> THEN known
     ELSE mine[Len(mine)].msg.payload.participants

\* A step of the hub, with each peer keeping the last state it was sent.
Presence(A) ==
  /\ ~uncaught
  /\ phase = "running"
  /\ A
  /\ lastState' = [w \in WS |-> LastStateOf(lastState[w], sent', w)]
  /\ UNCHANGED <<phase, env, registeredFrom, chunkIndex, inFlight>>
  /\ UNCHANGED clawVars
  /\ UNCHANGED peerVars
  /\ UNCHANGED chatVars
  /\ UNCHANGED aggVars

\* Sessions joining and leaving while frames are published.
NextPresence ==
  \/ \E w \in WS : Presence(Connection(w))
  \/ \E w \in WS : \E raw \in Registers : Presence(HandleClawMessage(w, raw))
  \/ \E w \in WS : Presence(TransportClosing(w))
  \/ \E w \in WS : Presence(HandleClawDisconnect(w))
  \/ \E f \in Frames : Presence(BroadcastFrame(f))

SpecPresence == Init /\ [][NextPresence]_vars

\* --------------------------------------------------------- re-registration
\* The ids registered from transport w so far, after a handler ran: a
\* register that passed the check of its fields adds its id.
RegisteredAfter(ids, op, w) ==
  IF /\ op.op = "message" /\ op.ws = w /\ op.raw.type = "register"
     /\ op.raw.clawId # Absent /\ op.raw.clawName # Absent
    THEN ids \cup {op.raw.clawId}
    ELSE ids

\* A step of the hub, with the ids each transport registered kept.
Registering(A) ==
  /\ ~uncaught
  /\ phase = "running"
  /\ A
  /\ registeredFrom' =
       [w \in WS |-> RegisteredAfter(registeredFrom[w], lastOp', w)]
  /\ UNCHANGED <<phase, env, lastState, chunkIndex, inFlight>>
  /\ UNCHANGED clawVars
  /\ UNCHANGED peerVars
  /\ UNCHANGED chatVars
  /\ UNCHANGED aggVars

\* The register message of a session: each id comes with its own name.
RegisterOf(id) ==
  [type |-> "register", clawId |-> id,
   clawName |-> IF id = "c1" THEN "Rex" ELSE "Ada", content |-> Absent]

\* Sessions registering again from other transports, transports closing,
\* and a publish now and then.
NextStale ==
  \/ \E w \in WS : Registering(Connection(w))
  \/ \E w \in WS : \E id \in ClawIds :
       Registering(HandleClawMessage(w, RegisterOf(id)))
  \/ \E w \in WS : Registering(TransportClosing(w))
  \/ \E w \in WS : Registering(HandleClawDisconnect(w))
  \/ Registering(BroadcastTranscript("Hello world"))

SpecStale == Init /\ [][NextStale]_vars

\* C35: whenever a session leaves the registry (transport close, or
\* pruning of an unwritable session during any fan-out), the participants
\* of the last state message delivered to each remaining session equal
\* the registry's participants once the operation has completed.
C35_PresenceConsistentAfterLeave ==
  [][(Keys(connectedClaws) \ Keys(connectedClaws') # {})
       => \A i \in 1..Len(connectedClaws') :
            lastState'[connectedClaws'[i].ws] = Participants']_vars

\* C36: after disconnect() has returned the manager stays disconnected: a
\* refresh cycle of the timer in flight when disconnect() was called neither
\* schedules a new timer nor reconnects the transport, so after each of its
\* steps no refresh timer is pending and the manager is not connected.
C36_StaysDisconnected ==
  [][(/\ stopped
      /\ refreshPc # "idle"
      /\ connectPc \notin {"refreshing", "retrying"}
      /\ lastOp'.op \in {"fetchDone", "disconnectDone", "reconnectDone"})
       => (refreshTimer' = "none" /\ ~connected')]_vars

\* C37: a chat, reaction or observation message reaches the client-event
\* handlers, and a chat reaches the room, only when the sending connection
\* has a registered session.
C37_OnlyRegisteredSendersHeard ==
  [][(/\ lastOp'.op = "message"
      /\ lastOp'.raw.type \in {"chat", "reaction", "observation"}
      /\ (invoked' # <<>> \/ said' # said))
       => FirstWith(connectedClaws, lastOp'.ws) # 0]_vars

\* The registry entry of id x.
EntryOf(claws, x) == claws[CHOOSE i \in 1..Len(claws) : claws[i].id = x]

\* Id x was registered from transport w and is now registered with another
\* transport, which is writable.
Superseded(claws, x, w) ==
  /\ x \in registeredFrom[w]
  /\ x \in Keys(claws)
  /\ EntryOf(claws, x).ws # w
  /\ readyState[EntryOf(claws, x).ws] = "OPEN"

Recording(A) ==
  /\ A
  /\ UNCHANGED <<connectedClaws, readyState, recentChat, currentFrame,
                 streamStartedAt, now, chatCount, sent, lastOp, owner>>
  /\ UNCHANGED bridgeVars
  /\ UNCHANGED peerVars
  /\ UNCHANGED chatVars
  /\ UNCHANGED <<phase, env, lastState, registeredFrom>>
  /\ UNCHANGED clawVars

\* What the transcription service answers for chunk k: the k-th fragment.
ChunkText(k) == Fragments[k]

\* recordLoop: recordChunk settled with a file of more than 1000 bytes;
\* transcribeChunk(chunkFile) is started and not awaited, and the loop goes
\* on to record the next chunk.
RecordChunk ==
  /\ chunkIndex < MaxChunks
  /\ chunkIndex' = chunkIndex + 1
  /\ inFlight' = inFlight \cup {chunkIndex + 1}
  /\ UNCHANGED aggVars

\* transcribeChunk after its await: the answer for chunk k has come, and a
\* valid text goes to addToBuffer. The requests in flight settle in any order.
TranscriptionDone(k) ==
  /\ k \in inFlight
  /\ inFlight' = inFlight \ {k}
  /\ chunkIndex' = chunkIndex
  /\ AddToBuffer(ChunkText(k))

\* The recording loop with its background transcriptions and the aggregator.
NextRecord ==
  \/ Recording(RecordChunk)
  \/ \E k \in 1..MaxChunks : Recording(TranscriptionDone(k))
  \/ Recording(BufferTimeoutFires /\ UNCHANGED <<chunkIndex, inFlight>>)
  \/ Recording(AggTick /\ UNCHANGED <<chunkIndex, inFlight>>)

SpecRecord == Init /\ [][NextRecord]_vars

\* The chunk a fragment was transcribed from.
ChunkOf(text) == CHOOSE k \in 1..Len(Fragments) : Fragments[k] = text

\* The fragments in a sequence of pieces are in the order of their chunks.
InChunkOrder(pieces) ==
  LET words == SelectSeq(pieces, LAMBDA p : p # " ")
  IN \A i, j \in 1..Len(words) : i < j => ChunkOf(words[i]) < ChunkOf(words[j])

\* C39: fragments enter the working buffer in the order their audio chunks
\* were recorded, and an emitted unit never has the text of a later chunk
\* before the text of an earlier chunk.
C39_FragmentsInRecordingOrder ==
  /\ InChunkOrder(transcriptBuffer)
  /\ InChunkOrder(Texts(1, Len(arrivals)))
  /\ \A e \in 1..Len(emitted) : InChunkOrder(emitted[e].text)

\* ----------------------------------------------------------- client library
\* A step of ClawStreamClient.
Claw(A) ==
  /\ A
  /\ UNCHANGED <<connectedClaws, readyState, recentChat, currentFrame,
                 streamStartedAt, now, chatCount, sent, lastOp, owner>>
  /\ UNCHANGED bridgeVars
  /\ UNCHANGED peerVars
  /\ UNCHANGED chatVars
  /\ UNCHANGED aggVars
  /\ UNCHANGED <<phase, env, lastState, registeredFrom, chunkIndex, inFlight>>

\* this.ws = new WebSocket(serverUrl), with the four listeners attached.
NewSocket ==
  /\ Len(sockets) < MaxSockets
  /\ sockets' = Append(sockets, "connecting")
  /\ clientWs' = Len(sockets) + 1

\* The application calls connect().
ClientConnect ==
  /\ sockets = <<>>
  /\ ~clientStopped
  /\ NewSocket
  /\ UNCHANGED <<clientConnected, reconnectAttempts, reconnectTimers,
                 pingInterval, registersSent, clientStopped>>

\* send(message): written only with a socket and while connected.
Send(count) == IF clientWs # 0 /\ clientConnected' THEN count + 1 ELSE count

\* ws.on("open") of socket i: connected, the attempts start over, the
\* register message is sent and the ping interval starts.
SocketOpen(i) ==
  /\ sockets[i] = "connecting"
  /\ sockets' = [sockets EXCEPT ![i] = "open"]
  /\ clientConnected' = TRUE
  /\ reconnectAttempts' = 0
  /\ registersSent' = Send(registersSent)
  /\ pingInterval' = TRUE
  /\ UNCHANGED <<clientWs, reconnectTimers, clientStopped>>

\* attemptReconnect(): nothing once the attempts are used up; otherwise one
\* more attempt is counted and a timer is set that calls connect().
AttemptReconnect(attempts, t) ==
  IF attempts >= maxReconnectAttempts
    THEN [attempts |-> attempts, timers |-> t]
    ELSE [attempts |-> attempts + 1, timers |-> t + 1]

\* ws.on("close") of socket i, whoever closed it and also after a failed
\* handshake: not connected, the ping interval is cleared, attemptReconnect().
SocketClose(i) ==
  /\ sockets[i] \in {"connecting", "open", "closing"}
  /\ sockets' = [sockets EXCEPT ![i] = "closed"]
  /\ clientConnected' = FALSE
  /\ pingInterval' = FALSE
  /\ reconnectAttempts' = AttemptReconnect(reconnectAttempts, reconnectTimers).attempts
  /\ reconnectTimers' = AttemptReconnect(reconnectAttempts, reconnectTimers).timers
  /\ UNCHANGED <<clientWs, registersSent, clientStopped>>

\* The timer of attemptReconnect fires: connect().
ReconnectTimerFires ==
  /\ reconnectTimers > 0
  /\ reconnectTimers' = reconnectTimers - 1
  /\ NewSocket
  /\ UNCHANGED <<clientConnected, reconnectAttempts, pingInterval,
                 registersSent, clientStopped>>

\* disconnect(): the ping interval is cleared, the socket is closed and
\* dropped; its 'close' event comes later.
ClientDisconnect ==
  /\ pingInterval' = FALSE
  /\ sockets' = IF clientWs # 0 /\ sockets[clientWs] \in {"connecting", "open"}
                  THEN [sockets EXCEPT ![clientWs] = "closing"]
                  ELSE sockets
  /\ clientWs' = 0
  /\ clientConnected' = FALSE
  /\ clientStopped' = TRUE
  /\ UNCHANGED <<reconnectAttempts, reconnectTimers, registersSent>>

NextClaw ==
  \/ Claw(ClientConnect)
  \/ \E i \in 1..Len(sockets) : Claw(SocketOpen(i))
  \/ \E i \in 1..Len(sockets) : Claw(SocketClose(i))
  \/ Claw(ReconnectTimerFires)
  \/ Claw(ClientDisconnect)

SpecClaw == Init /\ [][NextClaw]_vars

\* C40: after ClawStreamClient.disconnect() the client stays disconnected:
\* the close event of the socket that disconnect() closed does not start
\* the automatic reconnection, that is, it sets no reconnection timer (from
\* which a new connection would be opened and a register sent again).
C40_DisconnectIsFinal ==
  [][\A i \in 1..Len(sockets) :
       (clientStopped /\ sockets[i] = "closing" /\ sockets'[i] = "closed")
         => reconnectTimers' = reconnectTimers]_vars
====
